---- MODULE Spec2Model ----
(***************************************************************************)
(* A model of props-model (src/src/lib/props-model.js): the PropsModel     *)
(* property store, its derived properties, its change events and the       *)
(* standard access views.                                                  *)
(*                                                                         *)
(* The store is synchronous and single threaded.  A call of the API runs   *)
(* to completion, but the events it fires call listeners that call set     *)
(* again, so a call is modelled as a first step (the checks, the writes,   *)
(* the first emit) followed by one step per listener invocation and per    *)
(* entry of a batch's notification loop.  `stack` holds the emits and the  *)
(* batch loops still running; a new API call starts only when it is empty. *)
(***************************************************************************)
EXTENDS Integers, Sequences, FiniteSets, TLC

VARIABLES
    props,      \* this._props: property name -> {value, derived, valueValidator, didChange}
    propKeys,   \* the own keys of this._props, in insertion order
    listeners,  \* the event emitter: topic -> listeners, in subscription order
    utilizers,  \* derived property -> the calculateValue closure of its definition
    stack,      \* emits and batch notification loops still running, innermost last
    call,       \* the API call being run, or the last one run: its arguments, the
                \* values its properties held when it started and what it returned
    result,     \* "ok", or the error the call threw
    emitted,    \* the events fired since the call started, in order
    calcLog,    \* the calculator invocations since the call started, in order
    handled,    \* the invocations of the callers' change handlers since the call
                \* started, in order
    closures,   \* the utilizer functions the callers hold: the propNames of each
    target,     \* the target object of installAccessors: method name -> accessor
    announced   \* property -> the newValue of the last event fired for it

vars == <<props, propKeys, listeners, utilizers, stack, call, result, emitted, calcLog,
          handled, closures, target, announced>>

----------------------------------------------------------------------------
(* Bounds of the model. *)

MaxVal == 1      \* callers pass the values 0..MaxVal
MaxDeps == 2     \* a dependsOn list has at most this many entries
MaxBatch == 2    \* a batch set has at most this many keys
MaxEntries == 2  \* a propertyAccess map has at most this many entries
MaxClosures == 1 \* the callers hold at most this many utilizers and change handlers

----------------------------------------------------------------------------
(* Values and names. *)

\* The JavaScript value undefined; every other value of the model is a number >= 0.
Undefined == -1

\* Property names are strings, modelled as sequences of characters.
NameA == <<"a">>
NameB == <<"_", "b">>
NameC == <<"c">>

\* The properties the callers of the model define, in the order they define them.
DefOrder == <<NameA, NameB, NameC>>

\* this._props is an object literal, so the lookup this._props[propName] also
\* finds the members it inherits from Object.prototype.  One of them is modelled.
ValueOfKey == <<"v", "a", "l", "u", "e", "O", "f">>
ObjectPrototypeKeys == {ValueOfKey}

\* Names that are canonical array indices: the own keys of an object list them
\* first, in ascending numeric order.  The callers that read the store define
\* "_b", "10" and "9", in that order.
Name10 == <<"1", "0">>
Name9 == <<"9">>
ReadOrder == <<NameB, Name10, Name9>>

\* The callers that set many properties at once define "a", "_b", "c" and "d".
NameD == <<"d">>
NameUpperA == <<"A">>
AccessOrder == <<NameA, NameUpperA, NameB>>
WideOrder == <<NameA, NameB, NameC, NameD>>
WideNames == {WideOrder[i] : i \in 1..Len(WideOrder)}

DefinableNames == {DefOrder[i] : i \in 1..Len(DefOrder)}
ArgNames == DefinableNames \cup ObjectPrototypeKeys
ReadNames == {ReadOrder[i] : i \in 1..Len(ReadOrder)} \cup ObjectPrototypeKeys

ArgValues == 0..MaxVal
InitValues == {Undefined} \cup ArgValues

Validators == {"NOOP", "assertPositive"}
Calculators == {"sum", "any"}
Apis == {"store", "public", "private"}

SeqsUpTo(S, n) == UNION {[1..k -> S] : k \in 0..n}

Distinct(s) == \A i, j \in 1..Len(s) : i # j => s[i] # s[j]

\* The position of the name n in the list keys of defined names, 0 when absent.
IndexOf(keys, n) ==
    IF \E i \in 1..Len(keys) : keys[i] = n
    THEN CHOOSE i \in 1..Len(keys) : keys[i] = n
    ELSE 0

DepLists == SeqsUpTo(ArgNames, MaxDeps)

\* A batch is the list of the own entries of the propValues object: the keys of an
\* object are distinct.
Batches == {b \in SeqsUpTo(ArgNames \X ArgValues, MaxBatch) :
               Len(b) > 0 /\ Distinct([i \in 1..Len(b) |-> b[i][1]])}

----------------------------------------------------------------------------
(* The caller-supplied functions. *)

\* x > y of JavaScript for the values of the model: a comparison with undefined
\* is false.
Greater(x, y) == x # Undefined /\ y # Undefined /\ x > y

\* A function given as valueValidator, called with (incoming, current): TRUE
\* when it throws.  "assertPositive" is v => { if (!(v > 0)) throw ... } and
\* "assertGreater" is (v, current) => { if (!(v > current)) throw ... }.
ValidatorThrows(vv, incoming, current) ==
    CASE vv = "NOOP" -> FALSE
      [] vv = "assertPositive" -> ~Greater(incoming, 0)
      [] vv = "assertGreater" -> ~Greater(incoming, current)

\* A valueValidator as _set calls it, with the incoming value alone: its second
\* parameter is undefined.  TRUE when it throws.
ValueValidatorThrows(vv, incoming) == ValidatorThrows(vv, incoming, Undefined)

\* A didChange that tells of a change only when the value grows.
DidChangeIfGreater(dc, newValue, oldValue) ==
    CASE dc = "default" -> newValue > oldValue
      [] dc = "never" -> FALSE
      [] dc = "always" -> TRUE

\* A didChange function; "default" is defaultDidChange, "never" is () => false
\* and "always" is () => true.
DidChange(dc, newValue, oldValue) ==
    CASE dc = "default" -> newValue # oldValue
      [] dc = "never" -> FALSE
      [] dc = "always" -> TRUE

RECURSIVE SumOf(_)
SumOf(args) ==
    IF args = <<>> THEN 0
    ELSE (IF Head(args) = Undefined THEN 0 ELSE Head(args)) + SumOf(Tail(args))

\* A calculateValue function: "sum" adds its arguments, counting undefined as 0;
\* "any" tells whether one of them is positive; "first" is x => x.
Calc(calc, args) ==
    CASE calc = "sum" -> SumOf(args)
      [] calc = "any" -> IF SumOf(args) > 0 THEN 1 ELSE 0
      [] calc = "first" -> IF args = <<>> THEN Undefined ELSE args[1]

----------------------------------------------------------------------------
(* Lookups in this._props. *)

\* The truthiness of this._props[propName] in the store p.
HasProp(p, n) == n \in DOMAIN p \/ n \in ObjectPrototypeKeys

\* this._props[propName].value
PropValue(p, n) == IF n \in DOMAIN p THEN p[n].value ELSE Undefined

\* The truthiness of this._props[propName].derived
PropDerived(p, n) == n \in DOMAIN p /\ p[n].derived

ValuesOf(p, names) == [i \in 1..Len(names) |-> PropValue(p, names[i])]

\* The topic `${propName}-changed`.
Topic(n) == n \o <<"-changed">>

ListenersOf(ls, n) == IF Topic(n) \in DOMAIN ls THEN ls[Topic(n)] ELSE <<>>

----------------------------------------------------------------------------
(* The access validators of the views. *)

\* propNameIsPublic: !propName.startsWith('_')
PropNameIsPublic(n) == ~(Len(n) >= 1 /\ n[1] = "_")

\* An assertPropNameIsPublic that never throws.
AssertAnyPropName(n) == "none"

\* assertPropNameIsPublic, as the error it throws ("none" when it returns).
AssertPropNameIsPublic(n) == IF PropNameIsPublic(n) THEN "none" ELSE "NotPublic"

\* A standard write validator that lets every defined property through.
StandardWriteValidatorAllowsDerived(p, n) ==
    IF ~HasProp(p, n) THEN "TypeError" ELSE "none"

\* The validator createStandardWriteValidator returns.  Reading .derived of a
\* missing entry is a TypeError; an inherited member has no .derived.
StandardWriteValidator(p, n) ==
    IF ~HasProp(p, n) THEN "TypeError"
    ELSE IF PropDerived(p, n) THEN "DerivedWrite"
    ELSE "none"

\* Views made by createApi(readChecker) with a readChecker alone, named by the
\* checker: it returns true for a public name and, for a name that starts with an
\* underscore, false ("publicOrFalse") or an Error object ("publicOrError").
ReadCheckers == {"publicOrFalse", "publicOrError"}

Views == Apis \cup ReadCheckers

\* What the readChecker of a view returns for the name n: a truthy value that is
\* no Error, a falsy value or an Error object.  toJSON of the store passes
\* () => true, the public view propNameIsPublic, the private view () => true.
CheckerResult(api, n) ==
    CASE api \in {"store", "private", "guarded"} -> "truthy"
      [] api \in {"public", "publicOrFalse"} ->
            IF PropNameIsPublic(n) THEN "truthy" ELSE "falsy"
      [] api = "publicOrError" -> IF PropNameIsPublic(n) THEN "truthy" ELSE "error"

\* A propertyCheckerToValidator that throws for an Error alone.
PropertyCheckerToValidatorErrorsOnly(api, n) ==
    IF CheckerResult(api, n) = "error" THEN "CheckerError" ELSE "none"

\* The validator propertyCheckerToValidator makes of a checker, as the error it
\* throws: the Error the checker returned, or "access is not allowed".
PropertyCheckerToValidator(api, n) ==
    CASE CheckerResult(api, n) = "error" -> "CheckerError"
      [] CheckerResult(api, n) = "falsy" -> "NotAllowed"
      [] OTHER -> "none"

\* The readValidator of each view: the store passes () => {}, the public view
\* assertPropNameIsPublic, the private view () => {}, createApi(readChecker) the
\* validator made of the checker.
ReadValidator(api, n) ==
    CASE api \in {"store", "private", "guarded"} -> "none"
      [] api = "public" -> AssertPropNameIsPublic(n)
      [] OTHER -> PropertyCheckerToValidator(api, n)

\* The view "guarded" is one a caller makes with validators of its own,
\* createApi(() => true, () => {}, writeValidator): it reads everything, and its
\* writeValidator throws while the store's toJSON() shows a truthy value for the
\* property LockName.
LockName == NameB

\* The writeValidator of each API: the store passes () => {}, and
\* createApi(readChecker) takes the readValidator for it.
WriteValidator(p, api, n) ==
    CASE api = "store" -> "none"
      [] api = "public" ->
            IF AssertPropNameIsPublic(n) # "none" THEN AssertPropNameIsPublic(n)
            ELSE StandardWriteValidator(p, n)
      [] api = "private" -> StandardWriteValidator(p, n)
      [] api = "guarded" -> IF PropValue(p, LockName) > 0 THEN "Locked" ELSE "none"
      [] OTHER -> ReadValidator(api, n)

\* The first error of a forEach over checks that throw.
FirstError(errs) ==
    IF \A i \in 1..Len(errs) : errs[i] = "none" THEN "none"
    ELSE errs[CHOOSE i \in 1..Len(errs) :
                 errs[i] # "none" /\ \A j \in 1..(i - 1) : errs[j] = "none"]

----------------------------------------------------------------------------
(* _set *)

\* A call of the valueValidator that passes the stored value as well.
CallValueValidatorWithCurrent(p, n, v) ==
    IF n \notin DOMAIN p THEN "TypeError"
    ELSE IF ValidatorThrows(p[n].valueValidator, v, p[n].value) THEN "ValidatorError"
    ELSE "none"

\* The call of this._props[propName].valueValidator(value): an inherited member
\* has no valueValidator to call.
CallValueValidator(p, n, v) ==
    IF n \notin DOMAIN p THEN "TypeError"
    ELSE IF ValueValidatorThrows(p[n].valueValidator, v) THEN "ValidatorError"
    ELSE "none"

\* A two-argument _set that writes the value before it asks the access validator.
SetOutcomeWriteBeforeAccess(p, api, n, v) ==
    LET err == IF ~HasProp(p, n) THEN "NoSuchProperty"
               ELSE IF WriteValidator(p, api, n) # "none" THEN WriteValidator(p, api, n)
               ELSE CallValueValidator(p, n, v)
    IN  IF err # "none"
        THEN [err |-> err,
              props |-> IF err \in {"NotPublic", "DerivedWrite"}
                        THEN [p EXCEPT ![n].value = v] ELSE p,
              oldValue |-> Undefined, fire |-> FALSE]
        ELSE [err |-> "none",
              props |-> [p EXCEPT ![n].value = v],
              oldValue |-> p[n].value,
              fire |-> DidChange(p[n].didChange, v, p[n].value)]

\* A two-argument _set that reads the old value after the write.
SetOutcomeOldAfterWrite(p, api, n, v) ==
    LET err == IF ~HasProp(p, n) THEN "NoSuchProperty"
               ELSE IF WriteValidator(p, api, n) # "none" THEN WriteValidator(p, api, n)
               ELSE CallValueValidator(p, n, v)
    IN  IF err # "none"
        THEN [err |-> err, props |-> p, oldValue |-> Undefined, fire |-> FALSE]
        ELSE [err |-> "none",
              props |-> [p EXCEPT ![n].value = v],
              oldValue |-> v,
              fire |-> DidChange(p[n].didChange, v, v)]

\* A two-argument _set that writes the value before it calls the validator.
SetOutcomeWriteFirst(p, api, n, v) ==
    LET err == IF ~HasProp(p, n) THEN "NoSuchProperty"
               ELSE IF WriteValidator(p, api, n) # "none" THEN WriteValidator(p, api, n)
               ELSE CallValueValidator(p, n, v)
    IN  IF err # "none"
        THEN [err |-> err,
              props |-> IF err = "ValidatorError" THEN [p EXCEPT ![n].value = v] ELSE p,
              oldValue |-> Undefined, fire |-> FALSE]
        ELSE [err |-> "none",
              props |-> [p EXCEPT ![n].value = v],
              oldValue |-> p[n].value,
              fire |-> DidChange(p[n].didChange, v, p[n].value)]

\* A two-argument _set that writes the value only when didChange tells of a
\* change.
SetOutcomeWriteOnChange(p, api, n, v) ==
    LET err == IF ~HasProp(p, n) THEN "NoSuchProperty"
               ELSE IF WriteValidator(p, api, n) # "none" THEN WriteValidator(p, api, n)
               ELSE CallValueValidator(p, n, v)
    IN  IF err # "none"
        THEN [err |-> err, props |-> p, oldValue |-> Undefined, fire |-> FALSE]
        ELSE [err |-> "none",
              props |-> IF DidChange(p[n].didChange, v, p[n].value)
                        THEN [p EXCEPT ![n].value = v] ELSE p,
              oldValue |-> p[n].value,
              fire |-> DidChange(p[n].didChange, v, p[n].value)]

\* The two-argument form of _set, up to the event: the error thrown, the store
\* afterwards, the old value and whether the change event is fired.
SetOutcome(p, api, n, v) ==
    LET err == IF ~HasProp(p, n) THEN "NoSuchProperty"
               ELSE IF WriteValidator(p, api, n) # "none" THEN WriteValidator(p, api, n)
               ELSE CallValueValidator(p, n, v)
    IN  IF err # "none"
        THEN [err |-> err, props |-> p, oldValue |-> Undefined, fire |-> FALSE]
        ELSE [err |-> "none",
              props |-> [p EXCEPT ![n].value = v],
              oldValue |-> p[n].value,
              fire |-> DidChange(p[n].didChange, v, p[n].value)]

\* A batch set that checks and writes its entries one after the other.
RECURSIVE SetEachInTurn(_, _, _)
SetEachInTurn(p, api, b) ==
    IF b = <<>> THEN [err |-> "none", props |-> p]
    ELSE LET out == SetOutcome(p, api, b[1][1], b[1][2])
         IN  IF out.err # "none" THEN [err |-> out.err, props |-> out.props]
             ELSE SetEachInTurn(out.props, api, Tail(b))

SetBatchOutcomeInTurn(p, api, b) ==
    [err |-> SetEachInTurn(p, api, b).err,
     props |-> SetEachInTurn(p, api, b).props,
     olds |-> [i \in 1..Len(b) |-> PropValue(p, b[i][1])]]

\* A second loop that stops after the first entry.
BatchWriteFirst(p, b) ==
    IF b = <<>> THEN p ELSE [p EXCEPT ![b[1][1]].value = b[1][2]]

\* The second loop over the entries: oldValues.push(...), then the write.
RECURSIVE BatchWrite(_, _)
BatchWrite(p, b) ==
    IF b = <<>> THEN p
    ELSE BatchWrite([p EXCEPT ![b[1][1]].value = b[1][2]], Tail(b))

\* A one-argument _set that reads the old values after the writes.
SetBatchOutcomeOldsAfterWrite(p, api, b) ==
    LET exists == FirstError([i \in 1..Len(b) |->
                     IF HasProp(p, b[i][1]) THEN "none" ELSE "NoSuchProperty"])
        access == FirstError([i \in 1..Len(b) |-> WriteValidator(p, api, b[i][1])])
        valid  == FirstError([i \in 1..Len(b) |-> CallValueValidator(p, b[i][1], b[i][2])])
        err    == IF exists # "none" THEN exists
                  ELSE IF access # "none" THEN access
                  ELSE valid
    IN  IF err # "none"
        THEN [err |-> err, props |-> p, olds |-> <<>>]
        ELSE [err |-> "none",
              props |-> BatchWrite(p, b),
              olds |-> [i \in 1..Len(b) |-> BatchWrite(p, b)[b[i][1]].value]]

\* The one-argument form of _set, up to the notification loop: the three checking
\* loops, each over all keys, then the writes.
SetBatchOutcome(p, api, b) ==
    LET exists == FirstError([i \in 1..Len(b) |->
                     IF HasProp(p, b[i][1]) THEN "none" ELSE "NoSuchProperty"])
        access == FirstError([i \in 1..Len(b) |-> WriteValidator(p, api, b[i][1])])
        valid  == FirstError([i \in 1..Len(b) |-> CallValueValidator(p, b[i][1], b[i][2])])
        err    == IF exists # "none" THEN exists
                  ELSE IF access # "none" THEN access
                  ELSE valid
    IN  IF err # "none"
        THEN [err |-> err, props |-> p, olds |-> <<>>]
        ELSE [err |-> "none",
              props |-> BatchWrite(p, b),
              olds |-> [i \in 1..Len(b) |-> p[b[i][1]].value]]

----------------------------------------------------------------------------
(* _get, _toJSON and the read access of the views *)

\* A _get that looks the property up before it asks the validator.
GetOutcomeLookupFirst(p, api, n) ==
    IF ~HasProp(p, n) THEN [err |-> "NoSuchProperty", value |-> Undefined]
    ELSE IF ReadValidator(api, n) # "none"
    THEN [err |-> ReadValidator(api, n), value |-> Undefined]
    ELSE [err |-> "none", value |-> PropValue(p, n)]

\* _get: the validator, then the lookup, then the value.
GetOutcome(p, api, n) ==
    IF ReadValidator(api, n) # "none"
    THEN [err |-> ReadValidator(api, n), value |-> Undefined]
    ELSE IF ~HasProp(p, n) THEN [err |-> "NoSuchProperty", value |-> Undefined]
    ELSE [err |-> "none", value |-> PropValue(p, n)]

----------------------------------------------------------------------------
(* Object.entries(this._props) and _toJSON *)

\* The decimal digits, and the number a name made of digits writes.
Digits == <<"0", "1", "2", "3", "4", "5", "6", "7", "8", "9">>

IsDigit(c) == \E i \in 1..Len(Digits) : Digits[i] = c

DigitValue(c) == (CHOOSE i \in 1..Len(Digits) : Digits[i] = c) - 1

RECURSIVE NumValue(_)
NumValue(n) ==
    IF n = <<>> THEN 0
    ELSE NumValue(SubSeq(n, 1, Len(n) - 1)) * Len(Digits) + DigitValue(n[Len(n)])

\* The name is a canonical array index: digits, without a leading zero.  (The
\* names of the model are far below the limit 2^32 - 2.)
IsArrayIndex(n) ==
    /\ Len(n) >= 1
    /\ \A i \in 1..Len(n) : IsDigit(n[i])
    /\ Len(n) = 1 \/ n[1] # "0"

IsNoArrayIndex(n) == ~IsArrayIndex(n)

IndexBefore(m, n) == NumValue(m) < NumValue(n)

\* Object.entries(this._props), as the names it lists: the array indices in
\* ascending order, then the other names in the order they were added.
OwnKeys(keys) ==
    SortSeq(SelectSeq(keys, IsArrayIndex), IndexBefore) \o SelectSeq(keys, IsNoArrayIndex)

\* The filter of _toJSON: propChecker(propName) is truthy.  An Error object is
\* truthy.
PassesFilter(api, n) == CheckerResult(api, n) # "falsy"

\* A _toJSON that lists the properties in the order they were defined.
RECURSIVE ToJSONOutcomeInDefinitionOrder(_, _, _)
ToJSONOutcomeInDefinitionOrder(p, keys, api) ==
    IF keys = <<>> THEN <<>>
    ELSE (IF PassesFilter(api, Head(keys)) THEN <<<<Head(keys), p[Head(keys)].value>>>>
          ELSE <<>>)
         \o ToJSONOutcomeInDefinitionOrder(p, Tail(keys), api)

\* _toJSON: the entries <<name, value>> of the object it returns, in the order of
\* its own keys, which is the order they were added in: the order of the filtered
\* entries of this._props.
ToJSONOutcome(p, keys, api) ==
    LET entries == OwnKeys(keys)
        RECURSIVE Reduce(_)
        Reduce(es) ==
            IF es = <<>> THEN <<>>
            ELSE (IF PassesFilter(api, Head(es)) THEN <<<<Head(es), p[Head(es)].value>>>>
                  ELSE <<>>)
                 \o Reduce(Tail(es))
    IN  Reduce(entries)

----------------------------------------------------------------------------
(* defineProp, defineDerivedProp *)

----------------------------------------------------------------------------
(* _installAccessors *)

LowerCaseLetters ==
    <<"a", "b", "c", "d", "e", "f", "g", "h", "i", "j", "k", "l", "m",
      "n", "o", "p", "q", "r", "s", "t", "u", "v", "w", "x", "y", "z">>

UpperCaseLetters ==
    <<"A", "B", "C", "D", "E", "F", "G", "H", "I", "J", "K", "L", "M",
      "N", "O", "P", "Q", "R", "S", "T", "U", "V", "W", "X", "Y", "Z">>

\* c.toUpperCase() of one character.
ToUpperCase(c) ==
    IF \E i \in 1..Len(LowerCaseLetters) : LowerCaseLetters[i] = c
    THEN UpperCaseLetters[CHOOSE i \in 1..Len(LowerCaseLetters) : LowerCaseLetters[i] = c]
    ELSE c

GetPrefix == <<"g", "e", "t">>
SetPrefix == <<"s", "e", "t">>

\* createAccessorNames, for one prefix: the prefix, then the property name with
\* its first character in upper case.
AccessorName(prefix, n) ==
    IF n = <<>> THEN prefix
    ELSE prefix \o <<ToUpperCase(n[1])>> \o SubSeq(n, 2, Len(n))

\* The access types the callers write, and access.toLowerCase() of each.
Modes == {"readonly", "readwrite", "none", "ReadOnly", "bogus"}

ModeLowerCase(access) == IF access = "ReadOnly" THEN "readonly" ELSE access

\* The first loop of _installAccessors, for one entry: the error it throws.
EntryError(p, api, n, access) ==
    IF ~HasProp(p, n) THEN "NoSuchAccessorProperty"
    ELSE CASE ModeLowerCase(access) = "readonly" -> ReadValidator(api, n)
           [] ModeLowerCase(access) = "readwrite" ->
                 IF ReadValidator(api, n) # "none" THEN ReadValidator(api, n)
                 ELSE WriteValidator(p, api, n)
           [] ModeLowerCase(access) = "none" -> "none"
           [] OTHER -> "UnknownAccessType"

\* The accessors: each closes over the store and the property name.  `via` is
\* not part of the function: it records the view that installed it.
Getter(api, n) == [kind |-> "get", propName |-> n, via |-> api]
Setter(api, n) == [kind |-> "set", propName |-> n, via |-> api]

\* target[name] = accessor
Attach(tgt, name, accessor) ==
    [m \in DOMAIN tgt \cup {name} |-> IF m = name THEN accessor ELSE tgt[m]]

\* A second loop that attaches a getter, and never a setter.
RECURSIVE AttachAllGetters(_, _, _)
AttachAllGetters(tgt, api, entries) ==
    IF entries = <<>> THEN tgt
    ELSE LET n == entries[1][1]
             next == IF ModeLowerCase(entries[1][2]) \in {"readonly", "readwrite"}
                     THEN Attach(tgt, AccessorName(GetPrefix, n), Getter(api, n))
                     ELSE tgt
         IN  AttachAllGetters(next, api, Tail(entries))

\* The second loop of _installAccessors over the entries of propertyAccess.
RECURSIVE AttachAll(_, _, _)
AttachAll(tgt, api, entries) ==
    IF entries = <<>> THEN tgt
    ELSE LET n == entries[1][1]
             access == ModeLowerCase(entries[1][2])
             next ==
                 CASE access = "readonly" ->
                        Attach(tgt, AccessorName(GetPrefix, n), Getter(api, n))
                   [] access = "readwrite" ->
                        Attach(Attach(tgt, AccessorName(GetPrefix, n), Getter(api, n)),
                               AccessorName(SetPrefix, n), Setter(api, n))
                   [] OTHER -> tgt
         IN  AttachAll(next, api, Tail(entries))

\* _installAccessors(readValidator, writeValidator, target, propertyAccess), with
\* the entries of propertyAccess as Object.keys lists them.
InstallOutcome(p, tgt, api, entries) ==
    LET err == FirstError([i \in 1..Len(entries) |->
                              EntryError(p, api, entries[i][1], entries[i][2])])
    IN  [err |-> err,
         target |-> IF err = "none" THEN AttachAll(tgt, api, entries) ELSE tgt]

\* An installed setter that writes without calling the value validator.
SetterOutcomeUnvalidated(p, n, v) ==
    [err |-> "none",
     props |-> [p EXCEPT ![n].value = v],
     oldValue |-> p[n].value,
     fire |-> DidChange(p[n].didChange, v, p[n].value)]

\* An installed setter: this._set(() => {}, propName, value).
SetterOutcome(p, n, v) == SetOutcome(p, "store", n, v)

\* A defineProp without the check of this._props[propName]: it replaces the entry.
DefinePropOverwrite(p, keys, n, init, vv, dc) ==
    [err |-> "none",
     props |-> (n :> [value |-> init, derived |-> FALSE,
                      valueValidator |-> vv, didChange |-> dc]) @@ p,
     keys |-> Append(keys, n),
     fire |-> DidChange(dc, init, Undefined)]

\* defineProp, up to the event.
DefinePropOutcome(p, keys, n, init, vv, dc) ==
    IF HasProp(p, n)
    THEN [err |-> "AlreadyDefined", props |-> p, keys |-> keys, fire |-> FALSE]
    ELSE [err |-> "none",
          props |-> p @@ (n :> [value |-> init, derived |-> FALSE,
                                valueValidator |-> vv, didChange |-> dc]),
          keys |-> Append(keys, n),
          fire |-> DidChange(dc, init, Undefined)]

\* _createUtilizer with the store's validator () => {}: the error it throws.
CreateUtilizerError(p, propNames) ==
    FirstError([i \in 1..Len(propNames) |->
        IF HasProp(p, propNames[i]) THEN "none" ELSE "UnknownUtilizerProperty"])

\* _createUtilizer through the view api: the error it throws.  The validator is
\* asked about every name before the first lookup.
UtilizerError(p, api, propNames) ==
    LET access == FirstError([i \in 1..Len(propNames) |-> ReadValidator(api, propNames[i])])
    IN  IF access # "none" THEN access ELSE CreateUtilizerError(p, propNames)

\* A utilizer function that fetches the value of its first property alone.
UtilizerValuesOfFirst(p, propNames) ==
    IF propNames = <<>> THEN <<>> ELSE <<PropValue(p, propNames[1])>>

\* What the function _createUtilizer returns passes to its handler when it is
\* called with args: the values of the named properties, then args.
UtilizerValues(p, propNames) == ValuesOf(p, propNames)

\* The listener _createChangeHandler subscribes: the utilizer of respondsTo and
\* the caller's handler.
HandlerListener(respondsTo) ==
    [kind |-> "handler", propName |-> <<>>, dependsOn |-> respondsTo, calc |-> "collect"]

\* A listener that writes the first of its dependencies.
RecalcHandlerOfDependency(n, deps, calc) ==
    [kind |-> "recalc", propName |-> Head(deps), dependsOn |-> deps, calc |-> calc]

\* The listener defineDerivedProp subscribes: () => { this.set(propName, calculateValue()) }
RecalcHandler(n, deps, calc) ==
    [kind |-> "recalc", propName |-> n, dependsOn |-> deps, calc |-> calc]

\* An _onAny whose loop starts at the second entry of propNames.
OnAnyFromSecond(ls, propNames, h) ==
    IF propNames = <<>> THEN ls
    ELSE LET rest == Tail(propNames)
         IN  [t \in DOMAIN ls \cup {Topic(rest[i]) : i \in 1..Len(rest)} |->
                 (IF t \in DOMAIN ls THEN ls[t] ELSE <<>>)
                 \o (IF \E i \in 1..Len(rest) : t = Topic(rest[i]) THEN <<h>> ELSE <<>>)]

\* _onAny: one eventEmitter.on per entry of propNames, in order.
RECURSIVE OnAny(_, _, _)
OnAny(ls, propNames, h) ==
    IF propNames = <<>> THEN ls
    ELSE LET t == Topic(Head(propNames))
             ls1 == IF t \in DOMAIN ls THEN [ls EXCEPT ![t] = Append(@, h)]
                    ELSE ls @@ (t :> <<h>>)
         IN  OnAny(ls1, Tail(propNames), h)

\* A defineDerivedProp that calculates the value whatever initialValue is.
DefineDerivedOutcomeAlwaysCalculated(p, keys, ls, us, n, deps, calc, init, dc) ==
    LET err == IF HasProp(p, n) THEN "AlreadyDefined" ELSE CreateUtilizerError(p, deps)
        value == Calc(calc, ValuesOf(p, deps))
    IN  IF err # "none"
        THEN [err |-> err, props |-> p, keys |-> keys, listeners |-> ls,
              utilizers |-> us, calcs |-> <<>>, value |-> Undefined, fire |-> FALSE]
        ELSE [err |-> "none",
              props |-> p @@ (n :> [value |-> value, derived |-> TRUE,
                                    valueValidator |-> "NOOP", didChange |-> dc]),
              keys |-> Append(keys, n),
              listeners |-> OnAny(ls, deps, RecalcHandler(n, deps, calc)),
              utilizers |-> us @@ (n :> [dependsOn |-> deps, calc |-> calc]),
              calcs |-> <<[name |-> n, args |-> ValuesOf(p, deps), value |-> value]>>,
              value |-> value,
              fire |-> DidChange(dc, value, Undefined)]

\* defineDerivedProp, up to the event.
DefineDerivedOutcome(p, keys, ls, us, n, deps, calc, init, dc) ==
    LET err == IF HasProp(p, n) THEN "AlreadyDefined" ELSE CreateUtilizerError(p, deps)
        calculated == (init = Undefined)
        value == IF calculated THEN Calc(calc, ValuesOf(p, deps)) ELSE init
    IN  IF err # "none"
        THEN [err |-> err, props |-> p, keys |-> keys, listeners |-> ls,
              utilizers |-> us, calcs |-> <<>>, value |-> Undefined, fire |-> FALSE]
        ELSE [err |-> "none",
              props |-> p @@ (n :> [value |-> value, derived |-> TRUE,
                                    valueValidator |-> "NOOP", didChange |-> dc]),
              keys |-> Append(keys, n),
              listeners |-> OnAny(ls, deps, RecalcHandler(n, deps, calc)),
              utilizers |-> us @@ (n :> [dependsOn |-> deps, calc |-> calc]),
              calcs |-> IF calculated
                        THEN <<[name |-> n, args |-> ValuesOf(p, deps), value |-> value]>>
                        ELSE <<>>,
              value |-> value,
              fire |-> DidChange(dc, value, Undefined)]

----------------------------------------------------------------------------
(* Events. *)

\* An emitted event: the arguments of emit, and (for the record) the value the
\* store p holds for the property when it is emitted.
Event(p, n, nv, ov) ==
    [name |-> n, newValue |-> nv, oldValue |-> ov, stored |-> PropValue(p, n)]

\* An emit that calls the first listener of the topic alone.
EmitFrameFirstListener(ls, n, nv, ov) ==
    [kind |-> "emit", name |-> n, newValue |-> nv, oldValue |-> ov,
     hs |-> IF ListenersOf(ls, n) = <<>> THEN <<>> ELSE <<Head(ListenersOf(ls, n))>>,
     i |-> 1, batch |-> <<>>, olds |-> <<>>]

\* A running eventEmitter.emit(topic, propName, newValue, oldValue): the listeners
\* of the topic when the emit started, and the next one to call.
EmitFrame(ls, n, nv, ov) ==
    [kind |-> "emit", name |-> n, newValue |-> nv, oldValue |-> ov,
     hs |-> ListenersOf(ls, n), i |-> 1, batch |-> <<>>, olds |-> <<>>]

\* A running notification loop of a batch set: its entries, the old values and
\* the next entry.
BatchFrame(b, olds) ==
    [kind |-> "batch", name |-> <<>>, newValue |-> Undefined, oldValue |-> Undefined,
     hs |-> <<>>, i |-> 1, batch |-> b, olds |-> olds]

\* A notification loop that ends after its first entry.
FrameDoneAfterFirst(f) == IF f.kind = "emit" THEN f.i > Len(f.hs) ELSE f.i > 1

FrameDone(f) == IF f.kind = "emit" THEN f.i > Len(f.hs) ELSE f.i > Len(f.batch)

\* An emit that passes its listeners no arguments.
EventArgsNone(f) == <<>>

\* The arguments the running emit f passes to each listener.
EventArgs(f) == <<f.name, f.newValue, f.oldValue>>

\* Emits and loops with nothing left to do return.
RECURSIVE Unwind(_)
Unwind(stk) ==
    IF stk # <<>> /\ FrameDone(stk[Len(stk)])
    THEN Unwind(SubSeq(stk, 1, Len(stk) - 1))
    ELSE stk

Idle == stack = <<>>

NoCall ==
    [op |-> "new", api |-> "store", name |-> <<>>, value |-> Undefined,
     batch |-> <<>>, deps |-> <<>>, vv |-> "NOOP", dc |-> "default", calc |-> "sum",
     returned |-> Undefined, json |-> <<>>, olds |-> <<>>,
     args |-> <<>>, passed |-> <<>>]

\* What a subscriber to every topic holds after the event (n, nv, ov).
Announce(a, n, nv) ==
    [x \in DOMAIN a \cup {n} |-> IF x = n THEN nv ELSE a[x]]

\* _firePropChangeEvent(n, nv, ov) when fire holds, on the stack stk, with the
\* store p and the listeners ls.
FirePropChangeEvent(fire, stk, log, p, ls, n, nv, ov) ==
    /\ emitted' = IF fire THEN Append(log, Event(p, n, nv, ov)) ELSE log
    /\ stack' = Unwind(IF fire THEN Append(stk, EmitFrame(ls, n, nv, ov)) ELSE stk)
    /\ announced' = IF fire THEN Announce(announced, n, nv) ELSE announced

----------------------------------------------------------------------------
(* The API calls. *)

Init ==
    /\ props = <<>>
    /\ propKeys = <<>>
    /\ listeners = <<>>
    /\ utilizers = <<>>
    /\ stack = <<>>
    /\ call = NoCall
    /\ result = "ok"
    /\ emitted = <<>>
    /\ calcLog = <<>>
    /\ handled = <<>>
    /\ closures = {}
    /\ target = <<>>
    /\ announced = <<>>

DefineProp(n, init, vv, dc) ==
    LET out == DefinePropOutcome(props, propKeys, n, init, vv, dc)
    IN  /\ Idle
        /\ call' = [NoCall EXCEPT !.op = "defineProp", !.name = n, !.value = init,
                                  !.vv = vv, !.dc = dc]
        /\ result' = IF out.err = "none" THEN "ok" ELSE out.err
        /\ props' = out.props
        /\ propKeys' = out.keys
        /\ calcLog' = <<>>
        /\ handled' = <<>>
        /\ FirePropChangeEvent(out.fire, <<>>, <<>>, out.props, listeners,
                               n, init, Undefined)
        /\ UNCHANGED <<listeners, utilizers, closures, target>>

DefineDerivedProp(n, deps, calc, init, dc) ==
    LET out == DefineDerivedOutcome(props, propKeys, listeners, utilizers,
                                    n, deps, calc, init, dc)
    IN  /\ Idle
        /\ call' = [NoCall EXCEPT !.op = "defineDerivedProp", !.name = n, !.value = init,
                                  !.deps = deps, !.dc = dc, !.calc = calc]
        /\ result' = IF out.err = "none" THEN "ok" ELSE out.err
        /\ props' = out.props
        /\ propKeys' = out.keys
        /\ listeners' = out.listeners
        /\ utilizers' = out.utilizers
        /\ calcLog' = out.calcs
        /\ handled' = <<>>
        /\ UNCHANGED <<closures, target>>
        /\ FirePropChangeEvent(out.fire, <<>>, <<>>, out.props, out.listeners,
                               n, out.value, Undefined)

Set(api, n, v) ==
    LET out == SetOutcome(props, api, n, v)
    IN  /\ Idle
        /\ call' = [NoCall EXCEPT !.op = "set", !.api = api, !.name = n, !.value = v,
                                  !.olds = <<PropValue(props, n)>>]
        /\ result' = IF out.err = "none" THEN "ok" ELSE out.err
        /\ props' = out.props
        /\ calcLog' = <<>>
        /\ handled' = <<>>
        /\ FirePropChangeEvent(out.fire, <<>>, <<>>, out.props, listeners,
                               n, v, out.oldValue)
        /\ UNCHANGED <<propKeys, listeners, utilizers, closures, target>>

SetBatch(api, b) ==
    LET out == SetBatchOutcome(props, api, b)
    IN  /\ Idle
        /\ call' = [NoCall EXCEPT !.op = "setBatch", !.api = api, !.batch = b,
                                  !.olds = ValuesOf(props, [i \in 1..Len(b) |-> b[i][1]])]
        /\ result' = IF out.err = "none" THEN "ok" ELSE out.err
        /\ props' = out.props
        /\ calcLog' = <<>>
        /\ handled' = <<>>
        /\ emitted' = <<>>
        /\ stack' = IF out.err = "none" THEN <<BatchFrame(b, out.olds)>> ELSE <<>>
        /\ UNCHANGED <<propKeys, listeners, utilizers, closures, target, announced>>

\* get(propName) of the store or of a view.
Get(api, n) ==
    LET out == GetOutcome(props, api, n)
    IN  /\ Idle
        /\ call' = [NoCall EXCEPT !.op = "get", !.api = api, !.name = n,
                                  !.returned = out.value]
        /\ result' = IF out.err = "none" THEN "ok" ELSE out.err
        /\ emitted' = <<>>
        /\ calcLog' = <<>>
        /\ handled' = <<>>
        /\ UNCHANGED <<props, propKeys, listeners, utilizers, stack, closures, target, announced>>

\* toJSON() of the store or of a view.
ToJSON(api) ==
    /\ Idle
    /\ call' = [NoCall EXCEPT !.op = "toJSON", !.api = api,
                              !.json = ToJSONOutcome(props, propKeys, api)]
    /\ result' = "ok"
    /\ emitted' = <<>>
    /\ calcLog' = <<>>
    /\ handled' = <<>>
    /\ UNCHANGED <<props, propKeys, listeners, utilizers, stack, closures, target, announced>>

----------------------------------------------------------------------------
(* The steps of a running call. *)

\* api.createUtilizer(propNames, handler): the callers keep the function.
CreateUtilizer(api, propNames) ==
    LET err == UtilizerError(props, api, propNames)
    IN  /\ Idle
        /\ call' = [NoCall EXCEPT !.op = "createUtilizer", !.api = api, !.deps = propNames]
        /\ result' = IF err = "none" THEN "ok" ELSE err
        /\ closures' = IF err = "none" THEN closures \cup {propNames} ELSE closures
        /\ emitted' = <<>>
        /\ calcLog' = <<>>
        /\ handled' = <<>>
        /\ UNCHANGED <<props, propKeys, listeners, utilizers, stack, target, announced>>

\* api.createChangeHandler(respondsTo, handler): the utilizer is subscribed to
\* the topic of every entry of respondsTo, and returned.
CreateChangeHandler(api, respondsTo) ==
    LET err == UtilizerError(props, api, respondsTo)
    IN  /\ Idle
        /\ call' = [NoCall EXCEPT !.op = "createChangeHandler", !.api = api,
                                  !.deps = respondsTo]
        /\ result' = IF err = "none" THEN "ok" ELSE err
        /\ closures' = IF err = "none" THEN closures \cup {respondsTo} ELSE closures
        /\ listeners' = IF err = "none"
                        THEN OnAny(listeners, respondsTo, HandlerListener(respondsTo))
                        ELSE listeners
        /\ emitted' = <<>>
        /\ calcLog' = <<>>
        /\ handled' = <<>>
        /\ UNCHANGED <<props, propKeys, utilizers, stack, target, announced>>

\* A call of a utilizer function with the arguments args; the handler returns
\* what it is passed.
CallUtilizer(propNames, args) ==
    /\ Idle
    /\ propNames \in closures
    /\ call' = [NoCall EXCEPT !.op = "utilizer", !.deps = propNames, !.args = args,
                              !.passed = UtilizerValues(props, propNames)]
    /\ result' = "ok"
    /\ emitted' = <<>>
    /\ calcLog' = <<>>
    /\ handled' = <<>>
    /\ UNCHANGED <<props, propKeys, listeners, utilizers, stack, closures, target, announced>>

\* api.installAccessors(target, propertyAccess)
InstallAccessors(api, entries) ==
    LET out == InstallOutcome(props, target, api, entries)
    IN  /\ Idle
        /\ call' = [NoCall EXCEPT !.op = "installAccessors", !.api = api, !.batch = entries]
        /\ result' = IF out.err = "none" THEN "ok" ELSE out.err
        /\ target' = out.target
        /\ emitted' = <<>>
        /\ calcLog' = <<>>
        /\ handled' = <<>>
        /\ UNCHANGED <<props, propKeys, listeners, utilizers, stack, closures, announced>>

\* target[name]() for an installed getter.
CallGetter(name) ==
    /\ Idle
    /\ name \in DOMAIN target
    /\ target[name].kind = "get"
    /\ call' = [NoCall EXCEPT !.op = "getter", !.api = target[name].via,
                              !.name = target[name].propName, !.deps = <<name>>,
                              !.returned = PropValue(props, target[name].propName)]
    /\ result' = "ok"
    /\ emitted' = <<>>
    /\ calcLog' = <<>>
    /\ handled' = <<>>
    /\ UNCHANGED <<props, propKeys, listeners, utilizers, stack, closures, target, announced>>

\* target[name](v) for an installed setter.
CallSetter(name, v) ==
    /\ Idle
    /\ name \in DOMAIN target
    /\ target[name].kind = "set"
    /\ LET n == target[name].propName
           out == SetterOutcome(props, n, v)
       IN  /\ call' = [NoCall EXCEPT !.op = "setter", !.api = target[name].via,
                                     !.name = n, !.value = v, !.deps = <<name>>,
                                     !.olds = <<PropValue(props, n)>>]
           /\ result' = IF out.err = "none" THEN "ok" ELSE out.err
           /\ props' = out.props
           /\ FirePropChangeEvent(out.fire, <<>>, <<>>, out.props, listeners,
                                  n, v, out.oldValue)
    /\ calcLog' = <<>>
    /\ handled' = <<>>
    /\ UNCHANGED <<propKeys, listeners, utilizers, closures, target>>

\* definePropView(viewName, baseName, read, write), and in the same way
\* defineViewOfArrayProp and defineViewOfObjectProp: the class PropsModel has no
\* member of these names, so the call is the call of undefined, a TypeError, and
\* nothing of the store changes.
DefinePropView(viewName, baseName) ==
    /\ Idle
    /\ call' = [NoCall EXCEPT !.op = "definePropView", !.name = viewName,
                              !.deps = <<baseName>>]
    /\ result' = "TypeError"
    /\ emitted' = <<>>
    /\ calcLog' = <<>>
    /\ handled' = <<>>
    /\ UNCHANGED <<props, propKeys, listeners, utilizers, stack, closures, target, announced>>

\* The respondsTo lists of the change handlers subscribed so far.
Handlers ==
    LET subscribed == UNION {{listeners[t][i] : i \in 1..Len(listeners[t])} :
                                t \in DOMAIN listeners}
    IN  {h.dependsOn : h \in {g \in subscribed : g.kind = "handler"}}

Top == stack[Len(stack)]

Below == SubSeq(stack, 1, Len(stack) - 1)

\* The third loop of the one-argument _set, one entry per step: didChange on the
\* entry's value and its old value, then the event.
BatchNotify ==
    /\ stack # <<>>
    /\ Top.kind = "batch"
    /\ LET f == Top
           n == f.batch[f.i][1]
           v == f.batch[f.i][2]
           old == f.olds[f.i]
           stk == Append(Below, [f EXCEPT !.i = f.i + 1])
       IN  FirePropChangeEvent(DidChange(props[n].didChange, v, old),
                               stk, emitted, props, listeners, n, v, old)
    /\ UNCHANGED <<props, propKeys, listeners, utilizers, call, result, calcLog,
                   handled, closures, target>>

\* emit calls its next listener: a derived property's listener calculates the
\* value from the current values of its dependencies and sets it through the
\* store's own set.  An error it throws ends the whole call.
InvokeListener ==
    /\ stack # <<>>
    /\ Top.kind = "emit"
    /\ Top.hs[Top.i].kind = "recalc"
    /\ LET f == Top
           h == f.hs[f.i]
           args == ValuesOf(props, h.dependsOn)
           v == Calc(h.calc, args)
           out == SetOutcome(props, "store", h.propName, v)
           stk == Append(Below, [f EXCEPT !.i = f.i + 1])
       IN  /\ calcLog' = Append(calcLog, [name |-> h.propName, args |-> args, value |-> v])
           /\ props' = out.props
           /\ IF out.err = "none"
              THEN /\ FirePropChangeEvent(out.fire, stk, emitted, out.props, listeners,
                                          h.propName, v, out.oldValue)
                   /\ UNCHANGED result
              ELSE /\ stack' = <<>>
                   /\ result' = out.err
                   /\ UNCHANGED <<emitted, announced>>
    /\ UNCHANGED <<propKeys, listeners, utilizers, call, handled, closures, target>>

\* emit calls its next listener: a change handler's utilizer, with the arguments
\* of the event (propName, newValue, oldValue).
InvokeHandler ==
    /\ stack # <<>>
    /\ Top.kind = "emit"
    /\ Top.hs[Top.i].kind = "handler"
    /\ LET f == Top
           h == f.hs[f.i]
       IN  /\ handled' = Append(handled,
                                [respondsTo |-> h.dependsOn,
                                 values |-> UtilizerValues(props, h.dependsOn),
                                 extra |-> EventArgs(f)])
           /\ stack' = Unwind(Append(Below, [f EXCEPT !.i = f.i + 1]))
    /\ UNCHANGED <<props, propKeys, listeners, utilizers, call, result, emitted, calcLog,
                   closures, target, announced>>

\* The call has returned and its caller goes on.
Return ==
    /\ Idle
    /\ call.op # "new"
    /\ call' = NoCall
    /\ result' = "ok"
    /\ emitted' = <<>>
    /\ calcLog' = <<>>
    /\ handled' = <<>>
    /\ UNCHANGED <<props, propKeys, listeners, utilizers, stack, closures, target, announced>>

Ready == Idle /\ call.op = "new"

----------------------------------------------------------------------------
(* The callers.  A program that uses the store defines the properties of     *)
(* DefOrder, and calls no definition any more once they are all defined; it  *)
(* sets properties through the store and the views.                          *)

Defining == Ready /\ Len(propKeys) < Len(DefOrder)

\* The callers define their properties in the order `order`; a definition that
\* fails may name any property.
MayDefine(order, n) ==
    \/ HasProp(props, n)
    \/ Len(propKeys) < Len(order) /\ n = order[Len(propKeys) + 1]

NextToDefine(n) == MayDefine(DefOrder, n)

\* The arguments <<initialValue, valueValidator, didChange>> of defineProp.
PropDefs ==
    {<<Undefined, "NOOP", "default">>, <<MaxVal, "NOOP", "default">>,
     <<0, "assertPositive", "default">>, <<MaxVal, "NOOP", "never">>}

\* The arguments <<calculateValue, initialValue, didChange>> of defineDerivedProp.
DerivedDefs == {<<"sum", Undefined, "default">>}

\* The same, for the callers of SpecDefine.
AllDerivedDefs ==
    {<<"sum", Undefined, "default">>, <<"sum", MaxVal, "default">>,
     <<"sum", Undefined, "never">>}

\* The dependsOn lists of the callers of SpecDefine: any names, each once.
DistinctDepLists == {d \in DepLists : Distinct(d)}

\* The dependsOn lists of the callers of Spec: distinct definable names.
KnownDepLists ==
    {d \in DepLists : Len(d) > 0 /\ Distinct(d) /\ \A i \in 1..Len(d) : d[i] \in DefinableNames}

\* The batches of the callers of Spec: an inherited key comes alone.
KnownBatches ==
    {b \in Batches : Len(b) = 1 \/ \A i \in 1..Len(b) : b[i][1] \in DefinableNames}

Next ==
    \/ \E n \in ArgNames, d \in PropDefs :
          Defining /\ NextToDefine(n) /\ DefineProp(n, d[1], d[2], d[3])
    \/ \E n \in ArgNames, deps \in KnownDepLists, d \in DerivedDefs :
          Defining /\ NextToDefine(n) /\ DefineDerivedProp(n, deps, d[1], d[2], d[3])
    \/ \E api \in Apis, n \in ArgNames, v \in ArgValues : Ready /\ Set(api, n, v)
    \/ \E api \in Apis, b \in KnownBatches : Ready /\ SetBatch(api, b)
    \/ BatchNotify
    \/ InvokeListener
    \/ Return

Spec == Init /\ [][Next]_vars

----------------------------------------------------------------------------
(* The callers of SpecDefine: definitions alone, of any name, on any names,  *)
(* known or not.                                                             *)

NextDefine ==
    \/ \E n \in ArgNames, d \in PropDefs :
          Defining /\ NextToDefine(n) /\ DefineProp(n, d[1], d[2], d[3])
    \/ \E n \in ArgNames, deps \in DistinctDepLists, d \in AllDerivedDefs :
          Defining /\ NextToDefine(n) /\ DefineDerivedProp(n, deps, d[1], d[2], d[3])
    \/ \E n, base \in DefinableNames :
          /\ Defining
          /\ NextToDefine(n)
          /\ ~HasProp(props, n)
          /\ base \in DOMAIN props
          /\ DefinePropView(n, base)
    \/ Return

SpecDefine == Init /\ [][NextDefine]_vars

----------------------------------------------------------------------------
(* The callers of SpecDefault: every property has the default change rule,   *)
(* derived properties are defined without an initial value, and only primary *)
(* properties are written.                                                   *)

NextDefault ==
    \/ \E n \in ArgNames, init \in InitValues, vv \in Validators :
          Defining /\ NextToDefine(n) /\ DefineProp(n, init, vv, "default")
    \/ \E n \in ArgNames, deps \in KnownDepLists, calc \in Calculators :
          Defining /\ NextToDefine(n) /\ DefineDerivedProp(n, deps, calc, Undefined, "default")
    \/ \E api \in Apis, n \in ArgNames, v \in ArgValues :
          /\ Ready
          /\ ~PropDerived(props, n)
          /\ Set(api, n, v)
    \/ \E api \in Apis, b \in KnownBatches :
          /\ Ready
          /\ \A i \in 1..Len(b) : ~PropDerived(props, b[i][1])
          /\ SetBatch(api, b)
    \/ BatchNotify
    \/ InvokeListener
    \/ Return

SpecDefault == Init /\ [][NextDefault]_vars

----------------------------------------------------------------------------
(* The callers of SpecRead: they define the properties of ReadOrder, set     *)
(* them one at a time and read them, with get and toJSON, through the store   *)
(* and every view.                                                           *)

DefiningRead == Ready /\ Len(propKeys) < Len(ReadOrder)

ReadDepLists ==
    {d \in SeqsUpTo(ReadNames, MaxDeps) :
        Len(d) > 0 /\ Distinct(d) /\ \A i \in 1..Len(d) : d[i] \notin ObjectPrototypeKeys}

NextRead ==
    \/ \E n \in ReadNames, d \in PropDefs :
          DefiningRead /\ MayDefine(ReadOrder, n) /\ DefineProp(n, d[1], d[2], d[3])
    \/ \E n \in ReadNames, deps \in ReadDepLists, d \in DerivedDefs :
          /\ DefiningRead
          /\ MayDefine(ReadOrder, n)
          /\ DefineDerivedProp(n, deps, d[1], d[2], d[3])
    \/ \E api \in Views, n \in ReadNames, v \in ArgValues : Ready /\ Set(api, n, v)
    \/ \E api \in Views, n \in ReadNames \cup ObjectPrototypeKeys : Ready /\ Get(api, n)
    \/ \E api \in Views : Ready /\ ToJSON(api)
    \/ InvokeListener
    \/ Return

SpecRead == Init /\ [][NextRead]_vars

----------------------------------------------------------------------------
(* The callers of SpecWide: they define the four properties of WideOrder,    *)
(* the first primary and the last derived, and then set the primary ones     *)
(* through the store, one at a time or up to three at once.                  *)

DefiningWide == Ready /\ Len(propKeys) < Len(WideOrder)

\* The arguments <<initialValue, valueValidator, didChange>> of defineProp.
WidePropDefs == {<<0, "NOOP", "default">>}

\* The dependsOn lists: defined properties, in the order of their definition.
WideDepLists ==
    {d \in SeqsUpTo(WideNames, Len(WideOrder) - 1) :
        /\ Len(d) > 0
        /\ \A i \in 1..Len(d) : d[i] \in DOMAIN props
        /\ \A i, j \in 1..Len(d) : i < j => IndexOf(WideOrder, d[i]) < IndexOf(WideOrder, d[j])}

\* The batches: primary properties, each once, in any order.
WideBatches ==
    {b \in SeqsUpTo(WideNames \X ArgValues, Len(WideOrder) - 1) :
        /\ Len(b) > 0
        /\ Distinct([i \in 1..Len(b) |-> b[i][1]])
        /\ \A i \in 1..Len(b) : b[i][1] \in DOMAIN props /\ ~props[b[i][1]].derived}

NextWide ==
    \/ \E n \in WideNames, d \in WidePropDefs :
          /\ DefiningWide
          /\ Len(propKeys) < Len(WideOrder) - 1
          /\ MayDefine(WideOrder, n)
          /\ DefineProp(n, d[1], d[2], d[3])
    \/ /\ DefiningWide
       /\ propKeys # <<>>
       /\ \E n \in WideNames, deps \in WideDepLists :
          /\ MayDefine(WideOrder, n)
          /\ \E dc \in IF Len(propKeys) = Len(WideOrder) - 1
                       THEN {"default", "always"} ELSE {"default"} :
                DefineDerivedProp(n, deps, "sum", Undefined, dc)
    \/ \E n \in WideNames, v \in ArgValues :
          /\ Ready
          /\ ~DefiningWide
          /\ ~PropDerived(props, n)
          /\ Set("store", n, v)
    \/ /\ Ready
       /\ ~DefiningWide
       /\ \E b \in WideBatches : SetBatch("store", b)
    \/ BatchNotify
    \/ InvokeListener
    \/ Return

SpecWide == Init /\ [][NextWide]_vars

----------------------------------------------------------------------------
(* The callers of SpecUtil: they define the properties of DefOrder and then  *)
(* set them through the store, one or two at a time, and make and call       *)
(* utilizer functions and change handlers through the store and the public   *)
(* view.  Before the properties are all defined they only make the calls of  *)
(* createUtilizer and createChangeHandler that fail.                         *)

\* The arguments <<initialValue, valueValidator, didChange>> of defineProp.
UtilPropDefs == {<<0, "NOOP", "default">>}

\* The propNames of createUtilizer and the respondsTo of createChangeHandler: any
\* names, defined or not, once or twice.
UtilLists == SeqsUpTo({NameA, NameB, ValueOfKey}, MaxDeps)

\* The views the callers make them through.
UtilViews == {"store", "public"}

\* The arguments the callers pass to a utilizer function.
UtilArgs == {<<>>, <<MaxVal>>}

\* The callers make a function of each list once, and hold at most MaxClosures.
MayCreate(api, names) ==
    /\ Ready
    /\ Cardinality(closures) < MaxClosures
    /\ names \notin closures
    /\ Defining => UtilizerError(props, api, names) # "none"

NextUtil ==
    \/ \E n \in ArgNames, d \in UtilPropDefs :
          Defining /\ NextToDefine(n) /\ DefineProp(n, d[1], d[2], d[3])
    \/ \E n \in ArgNames, deps \in KnownDepLists, d \in DerivedDefs :
          Defining /\ NextToDefine(n) /\ DefineDerivedProp(n, deps, d[1], d[2], d[3])
    \/ \E n \in DefinableNames, v \in ArgValues : Ready /\ ~Defining /\ Set("store", n, v)
    \/ \E b \in KnownBatches : Ready /\ ~Defining /\ SetBatch("store", b)
    \/ \E api \in UtilViews, names \in UtilLists :
          MayCreate(api, names) /\ CreateUtilizer(api, names)
    \/ \E api \in UtilViews, names \in UtilLists :
          MayCreate(api, names) /\ CreateChangeHandler(api, names)
    \/ \E names \in UtilLists, args \in UtilArgs : Ready /\ CallUtilizer(names, args)
    \/ BatchNotify
    \/ InvokeListener
    \/ InvokeHandler
    \/ Return

SpecUtil == Init /\ [][NextUtil]_vars

----------------------------------------------------------------------------------------------------------------------------------------
(* The callers of SpecAccess: they define the properties a, A and _b, set    *)
(* them through the store, install accessors on one target object, once,     *)
(* through the store or a view, and call the accessors.  The property c is   *)
(* never defined.                                                            *)

DefiningAccess == Ready /\ Len(propKeys) < Len(AccessOrder)

AccessNames == {AccessOrder[i] : i \in 1..Len(AccessOrder)}

\* The arguments <<initialValue, valueValidator, didChange>> of defineProp:
\* these callers give the property a a value validator, and the others none.
AccessPropDef(n) ==
    IF n = NameA THEN <<0, "assertPositive", "default">> ELSE <<0, "NOOP", "default">>

AccessViews == {"store", "public", "guarded"}

\* The propertyAccess maps, as Object.keys lists them: distinct keys.
AccessMaps ==
    {m \in SeqsUpTo((AccessNames \cup {NameC} \cup ObjectPrototypeKeys) \X Modes,
                    MaxEntries) :
        \A i, j \in 1..Len(m) : i # j => m[i][1] # m[j][1]}

NextAccess ==
    \/ \E n \in AccessNames :
          /\ DefiningAccess
          /\ MayDefine(AccessOrder, n)
          /\ DefineProp(n, AccessPropDef(n)[1], AccessPropDef(n)[2], AccessPropDef(n)[3])
    \/ \E n \in AccessNames, v \in ArgValues : Ready /\ ~DefiningAccess /\ Set("store", n, v)
    \/ \E api \in AccessViews, m \in AccessMaps :
          Ready /\ ~DefiningAccess /\ target = <<>> /\ InstallAccessors(api, m)
    \/ \E name \in DOMAIN target : Ready /\ CallGetter(name)
    \/ \E name \in DOMAIN target, v \in ArgValues : Ready /\ CallSetter(name, v)
    \/ Return

SpecAccess == Init /\ [][NextAccess]_vars

----------------------------------------------------------------------------------------------------------------------------------------
(* The callers of SpecRules: they define a, a primary property with a value  *)
(* validator and a change rule of their choice, then _b, primary or derived  *)
(* from a, then c, derived from a and _b in either order or from one of      *)
(* them, with or without an initial value, and set the three through the     *)
(* store, one at a time and in batches.                                      *)

RuleOrder == <<NameA, NameB, NameC>>

RuleNames == {RuleOrder[i] : i \in 1..Len(RuleOrder)}

DefiningRules == Ready /\ Len(propKeys) < Len(RuleOrder)

\* The arguments <<initialValue, valueValidator, didChange>> of defineProp.
RulePropDefs ==
    {<<0, "assertGreater", "default">>, <<0, "NOOP", "never">>,
     <<0, "NOOP", "always">>, <<MaxVal, "assertPositive", "default">>}

\* The arguments <<calculateValue, initialValue, didChange>> of defineDerivedProp.
RuleDerivedDefs ==
    {<<"first", Undefined, "default">>, <<"first", 0, "default">>,
     <<"sum", MaxVal, "default">>, <<"first", MaxVal, "never">>}

\* The dependsOn lists: defined properties, each once.
RuleDepLists ==
    {d \in KnownDepLists : \A i \in 1..Len(d) : d[i] \in DOMAIN props}

RuleBatches == {b \in Batches : \A i \in 1..Len(b) : b[i][1] \in RuleNames}

NextRules ==
    \/ \E n \in {NameA, NameB}, d \in RulePropDefs :
          DefiningRules /\ MayDefine(RuleOrder, n) /\ DefineProp(n, d[1], d[2], d[3])
    \/ \E n \in {NameB, NameC}, deps \in RuleDepLists, d \in RuleDerivedDefs :
          /\ DefiningRules
          /\ MayDefine(RuleOrder, n)
          /\ DefineDerivedProp(n, deps, d[1], d[2], d[3])
    \/ \E n \in RuleNames, v \in ArgValues : Ready /\ ~DefiningRules /\ Set("store", n, v)
    \/ \E b \in RuleBatches : Ready /\ ~DefiningRules /\ SetBatch("store", b)
    \/ BatchNotify
    \/ InvokeListener
    \/ Return

SpecRules == Init /\ [][NextRules]_vars

----------------------------------------------------------------------------
(* The callers of SpecCascade: a, then _b, primary or derived, then c,        *)
(* derived; the primary properties report every write as a change.  They set *)
(* the three through the store.  The steps of a call run to completion: emit *)
(* calls its listeners one after the other, synchronously, and the loop of a *)
(* batch set goes through its entries.                                       *)

CascadePropDefs == {<<0, "NOOP", "always">>}

CascadeDerivedDefs == {<<"sum", Undefined, "default">>, <<"first", Undefined, "always">>}

NextCascade ==
    \/ \E n \in {NameA, NameB}, d \in CascadePropDefs :
          DefiningRules /\ MayDefine(RuleOrder, n) /\ DefineProp(n, d[1], d[2], d[3])
    \/ \E n \in {NameB, NameC}, deps \in RuleDepLists, d \in CascadeDerivedDefs :
          /\ DefiningRules
          /\ MayDefine(RuleOrder, n)
          /\ DefineDerivedProp(n, deps, d[1], d[2], d[3])
    \/ \E n \in RuleNames, v \in ArgValues : Ready /\ ~DefiningRules /\ Set("store", n, v)
    \/ \E b \in RuleBatches : Ready /\ ~DefiningRules /\ SetBatch("store", b)
    \/ BatchNotify
    \/ InvokeListener
    \/ Return

SpecCascade ==
    Init /\ [][NextCascade]_vars /\ WF_vars(BatchNotify) /\ WF_vars(InvokeListener)

----------------------------------------------------------------------------
(* The properties of the store. *)

\* The events of `log` about the property n, in order.
RECURSIVE EventsOf(_, _)
EventsOf(log, n) ==
    IF log = <<>> THEN <<>>
    ELSE IF Head(log).name = n THEN <<Head(log)>> \o EventsOf(Tail(log), n)
    ELSE EventsOf(Tail(log), n)

\* The key k with the value v makes a batch set of the API fail on the store p:
\* it was never defined, the API may not write it, or its validator rejects v.
BatchKeyFails(p, api, k, v) ==
    \/ k \notin DOMAIN p
    \/ WriteValidator(p, api, k) # "none"
    \/ ValueValidatorThrows(p[k].valueValidator, v)

\* C1: a batch set, through the store or a view, with a key that is undefined,
\* or that the access validator rejects, or whose value its validator rejects,
\* fails, changes no value of the store and emits no event, wherever the key is
\* in the batch.
C1_BatchAllOrNothing ==
    [][(/\ Ready
        /\ call'.op = "setBatch"
        /\ \E i \in 1..Len(call'.batch) :
              BatchKeyFails(props, call'.api, call'.batch[i][1], call'.batch[i][2]))
       => (/\ result' # "ok"
           /\ props' = props
           /\ emitted' = <<>>
           /\ stack' = <<>>)]_vars

\* A batch has failed on its second key; its first key is one the API may set to
\* the given value, which differs from the stored one, and has listeners.
C1_Witness ==
    /\ call.op = "setBatch"
    /\ result = "ValidatorError"
    /\ Len(call.batch) = 2
    /\ ~BatchKeyFails(props, call.api, call.batch[1][1], call.batch[1][2])
    /\ props[call.batch[1][1]].value # call.batch[1][2]
    /\ ListenersOf(listeners, call.batch[1][1]) # <<>>

\* The derived property d holds its calculator applied to the current values of
\* its dependencies, in the declared order.
Coherent(d) ==
    props[d].value = Calc(utilizers[d].calc, ValuesOf(props, utilizers[d].dependsOn))

\* C2: with default change rules, no initial value for derived properties and
\* writes of primary properties alone (the callers of SpecDefault), every derived
\* property is coherent whenever no call is running.
C2_CoherentAtQuiescence == Idle => \A d \in DOMAIN utilizers : Coherent(d)

\* A batch set has returned, and it has changed a derived property that depends
\* on another derived property.
C2_Witness ==
    /\ Idle
    /\ call.op = "setBatch"
    /\ result = "ok"
    /\ \E d \in DOMAIN utilizers :
          /\ EventsOf(emitted, d) # <<>>
          /\ \E i \in 1..Len(utilizers[d].dependsOn) :
                utilizers[d].dependsOn[i] \in DOMAIN utilizers

\* C3 as stated: whenever a listener is about to run during a batch set, every
\* key of the batch holds the value the batch gave it.
C3_Original ==
    (call.op = "setBatch" /\ result = "ok" /\ stack # <<>> /\ Top.kind = "emit")
    => \A i \in 1..Len(call.batch) : props[call.batch[i][1]].value = call.batch[i][2]

\* The calculator has produced the value the derived property k holds, in this
\* call.
Recalculated(k) ==
    /\ PropDerived(props, k)
    /\ \E j \in 1..Len(calcLog) :
          calcLog[j].name = k /\ calcLog[j].value = props[k].value

\* C3, amended: from the first step of a batch set on, before any event of the
\* batch, every primary key of the batch holds the value the batch gave it, and a
\* derived key holds that value or one calculated since: a listener never reads a
\* value from before the batch.
C3_BatchValuesVisible ==
    (call.op = "setBatch" /\ result = "ok")
    => \A i \in 1..Len(call.batch) :
          \/ props[call.batch[i][1]].value = call.batch[i][2]
          \/ Recalculated(call.batch[i][1])

\* A listener that depends on both keys of a batch is about to run, and the batch
\* has changed both keys.
C3_Witness ==
    /\ call.op = "setBatch"
    /\ result = "ok"
    /\ Len(call.batch) = 2
    /\ stack # <<>>
    /\ Top.kind = "emit"
    /\ \A i \in 1..2 :
          /\ stack[1].olds[i] # call.batch[i][2]
          /\ \E j \in 1..Len(Top.hs[Top.i].dependsOn) :
                Top.hs[Top.i].dependsOn[j] = call.batch[i][1]


\* The API may set the primary property n of the store p to v: n is defined and
\* primary, the access validator of the API lets the write through, and the
\* property's validator accepts v.
SetAccepted(p, api, n, v) ==
    /\ n \in DOMAIN p
    /\ ~p[n].derived
    /\ WriteValidator(p, api, n) = "none"
    /\ ~ValueValidatorThrows(p[n].valueValidator, v)

\* C4: set(name, v) of a defined primary property whose validator accepts v
\* succeeds and stores v; it emits exactly one event (name, v, old) when the
\* property's change rule holds of (v, old), and none otherwise, where old is the
\* value stored immediately before the call.  Until the call returns the property
\* keeps v and no further event about it is emitted.
C4_SingleSetSuccess ==
    [][/\ (Ready /\ call'.op = "set"
             /\ SetAccepted(props, call'.api, call'.name, call'.value))
          => /\ result' = "ok"
             /\ props'[call'.name].value = call'.value
             /\ emitted' =
                   IF DidChange(props[call'.name].didChange, call'.value,
                                props[call'.name].value)
                   THEN <<[name |-> call'.name, newValue |-> call'.value,
                           oldValue |-> props[call'.name].value,
                           stored |-> call'.value]>>
                   ELSE <<>>
       /\ (call.op = "set" /\ result = "ok" /\ call' = call)
          => /\ result' = "ok"
             /\ props'[call.name].value = call.value
             /\ EventsOf(emitted', call.name) = EventsOf(emitted, call.name)]_vars

\* A set of a primary property has returned; it has replaced a value stored by an
\* earlier call, it has emitted its one event and a derived property was
\* recalculated from it.
C4_Witness ==
    /\ Idle
    /\ call.op = "set"
    /\ result = "ok"
    /\ ~PropDerived(props, call.name)
    /\ Len(EventsOf(emitted, call.name)) = 1
    /\ EventsOf(emitted, call.name)[1].oldValue \notin {Undefined, call.value}
    /\ calcLog # <<>>


\* C5: when the validator of a primary property throws on set(name, v), the call
\* throws that error at once: no value of the store changes, no event is emitted
\* and no calculator runs.
C5_ValidatorRejection ==
    [][(/\ Ready
        /\ call'.op = "set"
        /\ call'.name \in DOMAIN props
        /\ ~props[call'.name].derived
        /\ WriteValidator(props, call'.api, call'.name) = "none"
        /\ ValueValidatorThrows(props[call'.name].valueValidator, call'.value))
       => (/\ result' = "ValidatorError"
           /\ props' = props
           /\ emitted' = <<>>
           /\ calcLog' = <<>>
           /\ stack' = <<>>)]_vars

\* A set was rejected by the validator of a property that a derived property
\* listens to, with a value other than the stored one.
C5_Witness ==
    /\ call.op = "set"
    /\ result = "ValidatorError"
    /\ ListenersOf(listeners, call.name) # <<>>
    /\ props[call.name].value # call.value


\* A set of the primary property foo1 has returned, and it has changed foo1: its
\* first event is foo1's.
SetChanged(foo1) ==
    /\ Idle
    /\ call.op = "set"
    /\ call.name = foo1
    /\ result = "ok"
    /\ ~PropDerived(props, foo1)
    /\ emitted # <<>>
    /\ emitted[1].name = foo1

\* bar is derived from [foo1].
DerivedFromOne(bar, foo1) == bar \in DOMAIN utilizers /\ utilizers[bar].dependsOn = <<foo1>>

\* f(x) for the calculator f of bar.
CalcOfOne(bar, x) == Calc(utilizers[bar].calc, <<x>>)

\* C6 as stated: when a set(foo1, v) that changes foo1 has returned, bar holds
\* f(v) and exactly one event about bar was emitted, (bar, f(v), f(previous foo1)).
C6_Original ==
    \A foo1 \in DOMAIN props, bar \in DOMAIN utilizers :
        (SetChanged(foo1) /\ DerivedFromOne(bar, foo1))
        => /\ props[bar].value = CalcOfOne(bar, call.value)
           /\ EventsOf(emitted, bar) =
                 <<[name |-> bar, newValue |-> CalcOfOne(bar, call.value),
                    oldValue |-> CalcOfOne(bar, emitted[1].oldValue),
                    stored |-> CalcOfOne(bar, call.value)]>>

\* C6, amended: with default change rules, no initial value for bar and writes of
\* primary properties alone (the callers of SpecDefault), when a set(foo1, v) that
\* changes foo1 has returned, bar holds f(v); exactly one event about bar was
\* emitted, (bar, f(v), f(previous foo1)), when f(v) differs from f(previous
\* foo1), and none when they are the same.
C6_DerivedRecomputation ==
    \A foo1 \in DOMAIN props, bar \in DOMAIN utilizers :
        (SetChanged(foo1) /\ DerivedFromOne(bar, foo1))
        => /\ props[bar].value = CalcOfOne(bar, call.value)
           /\ EventsOf(emitted, bar) =
                 IF CalcOfOne(bar, call.value) # CalcOfOne(bar, emitted[1].oldValue)
                 THEN <<[name |-> bar, newValue |-> CalcOfOne(bar, call.value),
                         oldValue |-> CalcOfOne(bar, emitted[1].oldValue),
                         stored |-> CalcOfOne(bar, call.value)]>>
                 ELSE <<>>

\* A set has changed foo1 from one defined value to another, and bar, derived from
\* [foo1], has changed with it.
C6_Witness ==
    \E foo1 \in DOMAIN props, bar \in DOMAIN utilizers :
        /\ SetChanged(foo1)
        /\ DerivedFromOne(bar, foo1)
        /\ emitted[1].oldValue # Undefined
        /\ EventsOf(emitted, bar) # <<>>


\* C7 as stated: defineDerivedProp with a dependsOn entry that was never defined
\* (the name being defined included) fails; the name is still undefined, no
\* listener is subscribed and no event is emitted.
C7_UnknownDependencyRejected ==
    [][(/\ Ready
        /\ call'.op = "defineDerivedProp"
        /\ \E i \in 1..Len(call'.deps) : call'.deps[i] \notin DOMAIN props)
       => (/\ result' # "ok"
           /\ props' = props
           /\ listeners' = listeners
           /\ emitted' = <<>>)]_vars

\* C8 as stated: every dependency of every derived property was defined, and
\* strictly before the derived property.
C8_DependenciesDefinedBefore ==
    \A d \in DOMAIN utilizers :
        \A i \in 1..Len(utilizers[d].dependsOn) :
            /\ IndexOf(propKeys, utilizers[d].dependsOn[i]) > 0
            /\ IndexOf(propKeys, utilizers[d].dependsOn[i]) < IndexOf(propKeys, d)

\* C9: defineProp or defineDerivedProp of a name that is already defined, as a
\* primary or a derived property, throws "Property already defined"; every entry
\* of the store (value, kind, validator, change rule), the order of the names,
\* the subscriptions and the calculators are as before, and no event is emitted.
C9_DuplicateDefinition ==
    [][(/\ Ready
        /\ call'.op \in {"defineProp", "defineDerivedProp"}
        /\ call'.name \in DOMAIN props)
       => (/\ result' = "AlreadyDefined"
           /\ props' = props
           /\ propKeys' = propKeys
           /\ listeners' = listeners
           /\ utilizers' = utilizers
           /\ emitted' = <<>>
           /\ stack' = <<>>)]_vars

\* A defineProp of a name that is defined, has a derived property listening to it
\* and holds another value than the one given, has failed.
C9_Witness ==
    /\ call.op = "defineProp"
    /\ result = "AlreadyDefined"
    /\ call.name \in DOMAIN props
    /\ ListenersOf(listeners, call.name) # <<>>
    /\ props[call.name].value # call.value
    /\ DidChange(call.dc, call.value, Undefined)

\* C10 as stated: defineProp of a name that was never defined succeeds, stores
\* the initial value whatever the validator says of it, and emits the one event
\* (name, initialValue, undefined) when the change rule holds of
\* (initialValue, undefined), and none otherwise; defineDerivedProp of such a
\* name on defined dependencies does the same with the given initial value, or
\* with the calculated one when none is given.
C10_DefinitionNotification ==
    [][/\ (Ready /\ call'.op = "defineProp" /\ call'.name \notin DOMAIN props)
          => /\ result' = "ok"
             /\ props'[call'.name].value = call'.value
             /\ stack' = <<>>
             /\ emitted' =
                   IF DidChange(call'.dc, call'.value, Undefined)
                   THEN <<[name |-> call'.name, newValue |-> call'.value,
                           oldValue |-> Undefined, stored |-> call'.value]>>
                   ELSE <<>>
       /\ (/\ Ready
           /\ call'.op = "defineDerivedProp"
           /\ call'.name \notin DOMAIN props
           /\ \A i \in 1..Len(call'.deps) : call'.deps[i] \in DOMAIN props)
          => LET value == IF call'.value = Undefined
                          THEN Calc(call'.calc, ValuesOf(props, call'.deps))
                          ELSE call'.value
             IN  /\ result' = "ok"
                 /\ props'[call'.name].value = value
                 /\ stack' = <<>>
                 /\ emitted' =
                       IF DidChange(call'.dc, value, Undefined)
                       THEN <<[name |-> call'.name, newValue |-> value,
                               oldValue |-> Undefined, stored |-> value]>>
                       ELSE <<>>]_vars


\* C11 as stated: set(derivedName, v) through the standard public view or the
\* standard private view fails with the "derived property" error, whatever the
\* name of the derived property.
C11_Original ==
    (call.op = "set" /\ call.api \in {"public", "private"} /\ PropDerived(props, call.name))
    => result = "DerivedWrite"

\* C11, amended: both standard views reject set(derivedName, v) at once and emit
\* nothing.  The error is the "derived property" error, except through the public
\* view for a name that starts with an underscore: the public view checks the name
\* first, and the error is "Property is not publicly accessible".
C11_DerivedWriteGating ==
    (call.op = "set" /\ call.api \in {"public", "private"} /\ PropDerived(props, call.name))
    => /\ result = IF call.api = "public" /\ ~PropNameIsPublic(call.name)
                   THEN "NotPublic" ELSE "DerivedWrite"
       /\ Idle
       /\ emitted = <<>>
       /\ calcLog = <<>>

\* The private view has rejected the set of a derived property whose name starts
\* with an underscore, to a value other than the stored one.
C11_Witness ==
    /\ call.op = "set"
    /\ call.api = "private"
    /\ PropDerived(props, call.name)
    /\ ~PropNameIsPublic(call.name)
    /\ result = "DerivedWrite"
    /\ props[call.name].value # call.value


\* A get or a set of a defined primary property through a standard view.
StandardViewAccess ==
    /\ call.op \in {"get", "set"}
    /\ call.api \in {"public", "private"}
    /\ call.name \in DOMAIN props
    /\ ~props[call.name].derived

\* C12 as stated: get and set of a defined primary property whose name starts
\* with an underscore fail through the public view with "Property is not publicly
\* accessible" and succeed through the private view; for a primary property with
\* any other name they succeed through both views.
C12_Original ==
    StandardViewAccess
    => result = IF call.api = "public" /\ ~PropNameIsPublic(call.name)
                THEN "NotPublic" ELSE "ok"

\* C12, amended: as stated for get, which returns the stored value where it
\* succeeds; where the claim says that set succeeds, the view lets the write
\* through: the set stores the value when the property's validator accepts it,
\* and fails with the validator's error, not an access error, when it rejects it.
C12_NameGating ==
    StandardViewAccess
    => IF call.api = "public" /\ ~PropNameIsPublic(call.name)
       THEN result = "NotPublic" /\ Idle /\ emitted = <<>>
       ELSE IF call.op = "get"
       THEN result = "ok" /\ call.returned = props[call.name].value
       ELSE IF ValueValidatorThrows(props[call.name].valueValidator, call.value)
       THEN result = "ValidatorError"
       ELSE result = "ok" /\ props[call.name].value = call.value

\* The public view has refused to set a primary property whose name starts with
\* an underscore, to a value its validator accepts and that is not the stored one.
C12_Witness ==
    /\ StandardViewAccess
    /\ call.op = "set"
    /\ call.api = "public"
    /\ ~PropNameIsPublic(call.name)
    /\ result = "NotPublic"
    /\ ~ValueValidatorThrows(props[call.name].valueValidator, call.value)
    /\ props[call.name].value # call.value


\* The property names a set is given, in order: the one name of the two-argument
\* form, the keys of the one-argument form.
CallKeys(c) ==
    IF c.op = "set" THEN <<c.name>> ELSE [i \in 1..Len(c.batch) |-> c.batch[i][1]]

\* C13: a set through a view, of either form, whose names all exist and one of
\* which the view's write validator rejects, fails with the validator's error;
\* every entry of the store is as before, no event is emitted and no calculator
\* runs.
C13_RejectedWriteChangesNothing ==
    [][(/\ Ready
        /\ call'.op \in {"set", "setBatch"}
        /\ call'.api \in {"public", "private"}
        /\ \A i \in 1..Len(CallKeys(call')) : HasProp(props, CallKeys(call')[i])
        /\ \E i \in 1..Len(CallKeys(call')) :
              WriteValidator(props, call'.api, CallKeys(call')[i]) # "none")
       => (/\ result' \in {"NotPublic", "DerivedWrite"}
           /\ props' = props
           /\ emitted' = <<>>
           /\ calcLog' = <<>>
           /\ stack' = <<>>)]_vars

\* The private view has rejected a batch for its second key, a derived property;
\* the first key is a primary property with listeners that the batch would have
\* changed.
C13_Witness ==
    /\ call.op = "setBatch"
    /\ call.api = "private"
    /\ result = "DerivedWrite"
    /\ Len(call.batch) = 2
    /\ PropDerived(props, call.batch[2][1])
    /\ ~BatchKeyFails(props, call.api, call.batch[1][1], call.batch[1][2])
    /\ props[call.batch[1][1]].value # call.batch[1][2]
    /\ ListenersOf(listeners, call.batch[1][1]) # <<>>


\* The number of times the calculator of the derived property d has run in this
\* call.
Recalcs(d) == Cardinality({j \in 1..Len(calcLog) : calcLog[j].name = d})

\* The entries of the batch that name a dependency of d and give it another
\* value than the one it held when the call started.
ChangedDeps(d) ==
    {i \in 1..Len(call.batch) :
        /\ \E j \in 1..Len(utilizers[d].dependsOn) :
              utilizers[d].dependsOn[j] = call.batch[i][1]
        /\ call.olds[i] # call.batch[i][2]}

\* A batch set of primary properties has returned, and d is a derived property
\* whose dependencies are all primary, with the default change rule.
BatchDone(d) ==
    /\ Idle
    /\ call.op = "setBatch"
    /\ result = "ok"
    /\ d \in DOMAIN utilizers
    /\ \A i \in 1..Len(utilizers[d].dependsOn) :
          /\ ~PropDerived(props, utilizers[d].dependsOn[i])
          /\ props[utilizers[d].dependsOn[i]].didChange = "default"

----------------------------------------------------------------------------
(* C15 *)

\* The derived properties that have n among their dependencies.
DependentsOf(n) ==
    {d \in DOMAIN utilizers : \E i \in 1..Len(utilizers[d].dependsOn) :
                                  utilizers[d].dependsOn[i] = n}

\* d was recalculated during the call with v as the value of its dependency n.
RecalculatedFrom(d, n, v) ==
    \E j \in 1..Len(calcLog) :
        /\ calcLog[j].name = d
        /\ \A i \in 1..Len(utilizers[d].dependsOn) :
               utilizers[d].dependsOn[i] = n => calcLog[j].args[i] = v

\* A single set of a defined property has returned without an error.
SetReturned ==
    /\ Idle
    /\ call.op = "set"
    /\ result = "ok"
    /\ call.name \in DOMAIN props

\* C15 as stated: when a successful set that has replaced the value of a property
\* by a different value returns, whatever the change rule of the property, every
\* derived property that depends on it has been recalculated from the new value.
C15_Original ==
    (SetReturned /\ call.olds[1] # call.value)
    => \A d \in DependentsOf(call.name) : RecalculatedFrom(d, call.name, call.value)

\* C15, amended: when a successful set whose change rule has reported a change (it
\* has emitted the change event of its property) returns, every derived property
\* that depends on the property has been recalculated from the new value.
C15_RecomputedOnChangeEvent ==
    (SetReturned /\ emitted # <<>> /\ emitted[1].name = call.name)
    => \A d \in DependentsOf(call.name) : RecalculatedFrom(d, call.name, call.value)

\* A set has changed a property that two derived properties depend on, and both
\* were recalculated from the new value.
C15_Witness ==
    /\ SetReturned
    /\ emitted # <<>>
    /\ emitted[1].name = call.name
    /\ call.olds[1] # call.value
    /\ Cardinality(DependentsOf(call.name)) = 2
    /\ \A d \in DependentsOf(call.name) : RecalculatedFrom(d, call.name, call.value)


----------------------------------------------------------------------------
(* C16 *)

\* A get has returned or thrown.
GetDone == Idle /\ call.op = "get"

\* C16 as stated, for the reads that no read policy stands in the way of (the
\* store, the private view, and the other views on names they admit): get of a
\* name that was never defined fails with "No such property".
C16_UnknownGetFails ==
    (GetDone /\ call.name \notin DOMAIN props /\ ReadValidator(call.api, call.name) = "none")
    => result = "NoSuchProperty"

\* C16 as stated, for every view: get of a name that was never defined fails with
\* "No such property" whatever the read policy of the view says about the name.
C16_UnknownGetFailsWhateverPolicy ==
    (GetDone /\ call.name \notin DOMAIN props) => result = "NoSuchProperty"

\* get changes no stored value and emits nothing.
C16_GetHasNoSideEffects ==
    [][(Ready /\ call'.op = "get") => (props' = props /\ emitted' = <<>> /\ stack' = <<>>)]_vars


----------------------------------------------------------------------------
(* C17 *)

\* The values a set is given, in the order of CallKeys.
CallValues(c) ==
    IF c.op = "set" THEN <<c.value>> ELSE [i \in 1..Len(c.batch) |-> c.batch[i][2]]

\* The access errors and the validation errors of the keys of a set, key by key.
AccessErrors(c) ==
    [i \in 1..Len(CallKeys(c)) |-> WriteValidator(props, c.api, CallKeys(c)[i])]

InvalidValues(c) ==
    [i \in 1..Len(CallKeys(c)) |-> CallValueValidator(props, CallKeys(c)[i], CallValues(c)[i])]

\* C17 as stated: a set of either form with a key that was never defined fails
\* with "No such property", whatever the other keys are; one whose keys are all
\* defined and that has a key the access validator rejects fails with the access
\* error, whatever the values are; one whose keys are all defined and accessible
\* and that has an invalid value fails with the value validator's error.
C17_StagedChecks ==
    call.op \in {"set", "setBatch"} =>
        LET keys == CallKeys(call)
            allDefined == \A i \in 1..Len(keys) : keys[i] \in DOMAIN props
        IN  /\ ~allDefined => result = "NoSuchProperty"
            /\ (allDefined /\ FirstError(AccessErrors(call)) # "none")
                  => result = FirstError(AccessErrors(call))
            /\ (allDefined /\ FirstError(AccessErrors(call)) = "none"
                           /\ FirstError(InvalidValues(call)) # "none")
                  => result = "ValidatorError"


----------------------------------------------------------------------------
(* C18 *)

\* The notification loop of a batch set is about to handle its next entry.
InBatchLoop == stack # <<>> /\ Top.kind = "batch"

\* What the loop emits for entry i of the running batch set: the event with the
\* entry's value and the value its key held when the set was called, if the
\* key's change rule says that the one is a change from the other.
BatchEventsOf(i) ==
    LET n == call.batch[i][1]
        v == call.batch[i][2]
        old == call.olds[i]
    IN  IF DidChange(props[n].didChange, v, old)
        THEN <<Event(props, n, v, old)>>
        ELSE <<>>

\* C18: a batch set that passes its checks writes all its values and emits
\* nothing before its notification loop starts at the first entry; the loop
\* handles the entries one by one in the order of the batch, and for each entry it
\* emits, subject to the change rule of the entry's key, one event that carries
\* the entry's value and, as old value, the value the key held before the batch.
C18_BatchNotificationOrder ==
    [][/\ (Ready /\ call'.op = "setBatch" /\ result' = "ok")
             => /\ emitted' = <<>>
                /\ \A i \in 1..Len(call'.batch) :
                       props'[call'.batch[i][1]].value = call'.batch[i][2]
                /\ stack' # <<>> /\ stack'[1].kind = "batch" /\ stack'[1].i = 1
       /\ InBatchLoop
             => /\ emitted' = emitted \o BatchEventsOf(Top.i)
                /\ props' = props
                /\ \/ Len(stack') >= Len(stack) /\ stack'[Len(stack)].kind = "batch"
                                                /\ stack'[Len(stack)].i = Top.i + 1
                   \/ Top.i = Len(call.batch) /\ Len(stack') = Len(stack) - 1
      ]_vars

\* A batch set of two keys that both held a defined value has returned; the first
\* key's change rule let its event through, and the second key's event came after
\* it, each with the value the key held before the batch.
C18_Witness ==
    /\ Idle
    /\ call.op = "setBatch"
    /\ result = "ok"
    /\ Len(call.batch) = 2
    /\ \A i \in 1..2 : call.olds[i] # Undefined /\ call.olds[i] # call.batch[i][2]
    /\ BatchEventsOf(1) # <<>>
    /\ BatchEventsOf(2) # <<>>
    /\ emitted[1] = BatchEventsOf(1)[1]
    /\ emitted[Len(emitted)] = BatchEventsOf(2)[1]
    /\ \A i \in 1..2 : ~PropDerived(props, call.batch[i][1])
    /\ Len(emitted) > 2


----------------------------------------------------------------------------
(* C19 *)

\* toJSON of the store or of a standard view has returned.
ToJSONDone == Idle /\ call.op = "toJSON" /\ call.api \in Apis

\* The names of the entries of the object toJSON returned, in the order of its keys.
JSONNames == [i \in 1..Len(call.json) |-> call.json[i][1]]

\* The view shows the property: the public view hides the underscore names.
ShownBy(api, n) == api # "public" \/ PropNameIsPublic(n)

ShownByCall(n) == ShownBy(call.api, n)

\* C19 as stated: toJSON of the store and of the private view lists every defined
\* property with its current value in the order the properties were defined, and
\* toJSON of the public view lists the same without the underscore names.
C19_Original ==
    ToJSONDone =>
        /\ JSONNames = SelectSeq(propKeys, ShownByCall)
        /\ \A i \in 1..Len(call.json) : call.json[i][2] = props[call.json[i][1]].value

\* C19, amended: toJSON of the store and of the private view lists every defined
\* property, primary or derived, once and with its current value; toJSON of the
\* public view lists the same without the underscore names.  The names that are
\* array indices ("9", "10") come first, in ascending numeric order, and the other
\* names follow in the order the properties were defined.
C19_JSONSnapshot ==
    ToJSONDone =>
        /\ {JSONNames[i] : i \in 1..Len(JSONNames)} = {n \in DOMAIN props : ShownByCall(n)}
        /\ Distinct(JSONNames)
        /\ \A i \in 1..Len(call.json) : call.json[i][2] = props[call.json[i][1]].value
        /\ \A i, j \in 1..Len(JSONNames) :
               i < j =>
                  LET m == JSONNames[i]
                      n == JSONNames[j]
                  IN  CASE IsArrayIndex(m) /\ IsArrayIndex(n) -> NumValue(m) < NumValue(n)
                        [] IsArrayIndex(m) /\ ~IsArrayIndex(n) -> TRUE
                        [] ~IsArrayIndex(m) /\ IsArrayIndex(n) -> FALSE
                        [] OTHER -> IndexOf(propKeys, m) < IndexOf(propKeys, n)

\* toJSON of the public view has returned with the store holding _b, 10 and 9: it
\* lists 9 and 10, in this order and without _b, and one of them is derived from
\* _b.
C19_Witness ==
    /\ ToJSONDone
    /\ call.api = "public"
    /\ propKeys = ReadOrder
    /\ JSONNames = <<Name9, Name10>>
    /\ \E d \in DOMAIN utilizers : \E i \in 1..Len(utilizers[d].dependsOn) :
           utilizers[d].dependsOn[i] = NameB


----------------------------------------------------------------------------
(* C20 *)

\* C20 as stated: when toJSON of a view (or of the store) returns, a defined
\* property is among its keys if and only if get of the property through the same
\* view succeeds, whether the view's readChecker returns a truthy value, a falsy
\* value or an Error object for the name.
C20_ToJSONFilteredByReadAccess ==
    (Idle /\ call.op = "toJSON") =>
        \A n \in DOMAIN props :
            (\E i \in 1..Len(call.json) : call.json[i][1] = n)
            <=> GetOutcome(props, call.api, n).err = "none"


----------------------------------------------------------------------------
(* C21 *)

\* The errors of the validator that createApi makes of a readChecker.
CheckerErrors == {"CheckerError", "NotAllowed"}

\* What the default validator of the view api makes of the checker's result for n.
DefaultGate(api, n) ==
    CASE CheckerResult(api, n) = "error" -> "CheckerError"
      [] CheckerResult(api, n) = "falsy" -> "NotAllowed"
      [] CheckerResult(api, n) = "truthy" -> "none"

\* C21: through a view made by createApi(readChecker) alone, get of a defined
\* property throws the checker's own Error when the checker returns one, the
\* "not allowed" error when it returns a falsy value, and succeeds otherwise; and
\* set of a defined property is denied, with the same error, for exactly the names
\* get is denied for.
C21_CreateApiDefaults ==
    (Idle /\ call.api \in ReadCheckers /\ call.name \in DOMAIN props) =>
        /\ call.op = "get" =>
              result = IF DefaultGate(call.api, call.name) = "none" THEN "ok"
                       ELSE DefaultGate(call.api, call.name)
        /\ call.op = "set" =>
              /\ result \in CheckerErrors <=> GetOutcome(props, call.api, call.name).err # "none"
              /\ result \in CheckerErrors => result = GetOutcome(props, call.api, call.name).err
              /\ result \in CheckerErrors => result = DefaultGate(call.api, call.name)

\* A set of the defined property _b through the view whose checker returns an
\* Error for it was denied with that Error.
C21_Witness ==
    /\ Idle
    /\ call.op = "set"
    /\ call.api = "publicOrError"
    /\ call.name = NameB
    /\ NameB \in DOMAIN props
    /\ result = "CheckerError"


----------------------------------------------------------------------------
(* C22 *)

\* createUtilizer has returned a function, or thrown.
CreateUtilizerDone == Idle /\ call.op = "createUtilizer"

\* A utilizer function has returned.
UtilizerDone == Idle /\ call.op = "utilizer"

\* C22 as stated: createUtilizer(propNames, handler) fails if one of the names
\* was never defined or the view's read validator rejects it, and succeeds
\* otherwise; a call of the function it returns passes the handler the values the
\* named properties hold at the time of the call, in the order of propNames (the
\* call's own arguments follow them), and changes nothing in the store.
C22_Utilizer ==
    /\ CreateUtilizerDone =>
          (result # "ok" <=> \E i \in 1..Len(call.deps) :
                                \/ call.deps[i] \notin DOMAIN props
                                \/ ReadValidator(call.api, call.deps[i]) # "none")
    /\ UtilizerDone =>
          /\ result = "ok"
          /\ \A i \in 1..Len(call.deps) : call.deps[i] \in DOMAIN props
          /\ call.passed = [i \in 1..Len(call.deps) |-> props[call.deps[i]].value]


----------------------------------------------------------------------------
(* C23 *)

\* The invocations, since the call started, of the change handler of respondsTo
\* with the event arguments (n, nv, ov), and the events (n, nv, ov) emitted.
InvocationsFor(respondsTo, n, nv, ov) ==
    {j \in 1..Len(handled) : /\ handled[j].respondsTo = respondsTo
                             /\ handled[j].extra = <<n, nv, ov>>}

Emissions(n, nv, ov) ==
    {j \in 1..Len(emitted) : /\ emitted[j].name = n
                             /\ emitted[j].newValue = nv
                             /\ emitted[j].oldValue = ov}

\* The names of a list.
NamesOf(respondsTo) == {respondsTo[i] : i \in 1..Len(respondsTo)}

\* C23: a change handler whose respondsTo names each property once has, when a
\* call returns, been invoked once for each event the call emitted about a
\* property of respondsTo and for no other reason; each invocation was passed, as
\* its leading arguments, the values all the properties of respondsTo held at the
\* moment of the invocation, in the order of respondsTo.
C23_ChangeHandler ==
    /\ [](Idle =>
            \A r \in Handlers :
                Distinct(r) =>
                   /\ \A j \in 1..Len(emitted) :
                          emitted[j].name \in NamesOf(r) =>
                             Cardinality(InvocationsFor(r, emitted[j].name,
                                            emitted[j].newValue, emitted[j].oldValue))
                             = Cardinality(Emissions(emitted[j].name,
                                              emitted[j].newValue, emitted[j].oldValue))
                   /\ \A j \in 1..Len(handled) :
                          handled[j].respondsTo = r =>
                             /\ handled[j].extra[1] \in NamesOf(r)
                             /\ Emissions(handled[j].extra[1], handled[j].extra[2],
                                          handled[j].extra[3]) # {}
                             /\ \A i \in 1..Len(r) :
                                    ~PropDerived(props, r[i]) /\ HasProp(props, r[i])
                                       => handled[j].values[i] = PropValue(props, r[i]))
    /\ [][Len(handled') > Len(handled) =>
             /\ Len(handled') = Len(handled) + 1
             /\ stack # <<>>
             /\ LET h == handled'[Len(handled')]
                IN  /\ h.respondsTo \in Handlers
                    /\ h.extra = <<Top.name, Top.newValue, Top.oldValue>>
                    /\ h.values = [i \in 1..Len(h.respondsTo) |->
                                      PropValue(props, h.respondsTo[i])]]_vars

\* The change handler of [a, _b] was invoked once by a set of a to 1 while _b held
\* 0: it was passed 1 and 0.
C23_Witness ==
    /\ Idle
    /\ call.op = "set"
    /\ call.name = NameA
    /\ Handlers = {<<NameA, NameB>>}
    /\ ~PropDerived(props, NameB)
    /\ Len(handled) = 1
    /\ handled[1].values = <<1, 0>>
    /\ handled[1].extra = <<NameA, 1, 0>>


----------------------------------------------------------------------------
(* C24 *)

----------------------------------------------------------------------------
(* C25 *)

InstallAccessorsCalled == Ready /\ call'.op = "installAccessors"

\* The access types of installAccessors, read without regard to case.
KnownMode(access) == ModeLowerCase(access) \in {"readonly", "readwrite", "none"}

\* An entry that names an undefined property, has an unknown mode, or is
\* rejected by the view's read validator or write validator.
DisallowedEntry(p, api, e) ==
    \/ e[1] \notin DOMAIN p
    \/ ~KnownMode(e[2])
    \/ ModeLowerCase(e[2]) \in {"readonly", "readwrite"} /\ ReadValidator(api, e[1]) # "none"
    \/ ModeLowerCase(e[2]) = "readwrite" /\ WriteValidator(p, api, e[1]) # "none"

\* C25: installAccessors is all-or-nothing: when an entry of the map names an
\* undefined property, has an unknown mode, or is rejected by the view's read
\* validator (readonly, readwrite) or write validator (readwrite), the call
\* fails and the target is as it was before the call.
C25_AllOrNothing ==
    [][InstallAccessorsCalled =>
          ((\E i \in 1..Len(call'.batch) : DisallowedEntry(props, call'.api, call'.batch[i]))
              => result' # "ok" /\ target' = target)]_vars

\* The same, with "undefined" read as the lookup of the code reads it.
C25_AllOrNothingOfLookup ==
    [][InstallAccessorsCalled =>
          ((\E i \in 1..Len(call'.batch) :
               EntryError(props, call'.api, call'.batch[i][1], call'.batch[i][2]) # "none")
              <=> (result' # "ok"))
          /\ (result' # "ok" => target' = target)]_vars

----------------------------------------------------------------------------
(* C26 *)

\* The entry i of the map yields a getter, a setter.
YieldsGetter(m, i) == ModeLowerCase(m[i][2]) \in {"readonly", "readwrite"}
YieldsSetter(m, i) == ModeLowerCase(m[i][2]) = "readwrite"

\* The accessor names a map yields.
YieldedNames(m) ==
    {AccessorName(GetPrefix, m[i][1]) : i \in {j \in 1..Len(m) : YieldsGetter(m, j)}}
    \cup {AccessorName(SetPrefix, m[i][1]) : i \in {j \in 1..Len(m) : YieldsSetter(m, j)}}

\* No later entry of the map yields the accessor name again.
LastGetter(m, i) ==
    \A j \in (i + 1)..Len(m) :
        YieldsGetter(m, j) => AccessorName(GetPrefix, m[j][1]) # AccessorName(GetPrefix, m[i][1])
LastSetter(m, i) ==
    \A j \in (i + 1)..Len(m) :
        YieldsSetter(m, j) => AccessorName(SetPrefix, m[j][1]) # AccessorName(SetPrefix, m[i][1])

InstallSucceeds == InstallAccessorsCalled /\ result' = "ok"
GetterDone == Idle /\ call.op = "getter"
SetterDone == Idle /\ call.op = "setter"

\* What the store's get(name) returns.
StoreGet(n) == GetOutcome(props, "store", n).value

\* C26 as stated: a successful installAccessors attaches for each entry its
\* getter ("readonly", "readwrite") and its setter ("readwrite") and nothing
\* else, and calling a setter with v makes the store's get(name) return v.
C26_Original ==
    /\ [][InstallSucceeds =>
            LET m == call'.batch
            IN  /\ DOMAIN target' = DOMAIN target \cup YieldedNames(m)
                /\ \A i \in 1..Len(m) :
                      /\ YieldsGetter(m, i) =>
                            target'[AccessorName(GetPrefix, m[i][1])].kind = "get"
                            /\ target'[AccessorName(GetPrefix, m[i][1])].propName = m[i][1]
                      /\ YieldsSetter(m, i) =>
                            target'[AccessorName(SetPrefix, m[i][1])].kind = "set"
                            /\ target'[AccessorName(SetPrefix, m[i][1])].propName = m[i][1]]_vars
    /\ [](GetterDone => call.returned = StoreGet(call.name))
    /\ [](SetterDone => StoreGet(call.name) = call.value)

\* C26: a successful installAccessors attaches, under get{Name} and set{Name}
\* with the first character of the name in upper case, a getter for each
\* "readonly" entry, a getter and a setter for each "readwrite" entry, and
\* nothing else; of two entries that yield the same accessor name the later one
\* keeps it.  A getter returns what the store's get of its property returns at
\* the time of the call; a setter called with v either fails and leaves the
\* value as it was, or makes the store's get(name) return v.
C26_AccessorModes ==
    /\ [][InstallSucceeds =>
            LET m == call'.batch
            IN  /\ DOMAIN target' = DOMAIN target \cup YieldedNames(m)
                /\ \A g \in DOMAIN target \ YieldedNames(m) : target'[g] = target[g]
                /\ \A i \in 1..Len(m) :
                      /\ YieldsGetter(m, i) /\ LastGetter(m, i) =>
                            target'[AccessorName(GetPrefix, m[i][1])].kind = "get"
                            /\ target'[AccessorName(GetPrefix, m[i][1])].propName = m[i][1]
                      /\ YieldsSetter(m, i) /\ LastSetter(m, i) =>
                            target'[AccessorName(SetPrefix, m[i][1])].kind = "set"
                            /\ target'[AccessorName(SetPrefix, m[i][1])].propName = m[i][1]]_vars
    /\ [](GetterDone => call.returned = StoreGet(call.name))
    /\ [](SetterDone =>
            StoreGet(call.name) = IF result = "ok" THEN call.value ELSE call.olds[1])

\* A setter of a has stored a new value while the getter getA is that of A.
C26_Witness ==
    /\ SetterDone
    /\ result = "ok"
    /\ call.name = NameA
    /\ call.value # call.olds[1]
    /\ AccessorName(GetPrefix, NameA) \in DOMAIN target
    /\ target[AccessorName(GetPrefix, NameA)].propName = NameUpperA

----------------------------------------------------------------------------
(* C27 *)

SetterCalled == Ready /\ call'.op = "setter"

\* The step has the outcome out of a set of call'.name to call'.value: the error
\* or the normal return, the store afterwards and the notification.
SameOutcome(out) ==
    /\ result' = (IF out.err = "none" THEN "ok" ELSE out.err)
    /\ props' = out.props
    /\ emitted' = IF out.fire
                  THEN <<Event(out.props, call'.name, call'.value, out.oldValue)>>
                  ELSE <<>>

\* C27 as stated: every call of a setter installed through a view has the
\* outcome of the view's set(name, v) made at that moment.
C27_Original ==
    [][SetterCalled =>
          SameOutcome(SetOutcome(props, call'.api, call'.name, call'.value))]_vars

\* C27: a setter is installed through a view only if the view's write validator
\* accepts the name at that time; every call of it has the outcome of the
\* store's set(name, v) made at that moment (value validator, write and
\* notification), which is the outcome of the view's set(name, v) whenever the
\* view's write validator accepts the name at that moment.
C27_SetterWritesThroughStore ==
    /\ [][InstallSucceeds =>
            \A i \in 1..Len(call'.batch) :
                YieldsSetter(call'.batch, i) =>
                    WriteValidator(props, call'.api, call'.batch[i][1]) = "none"]_vars
    /\ [][SetterCalled =>
            /\ SameOutcome(SetOutcome(props, "store", call'.name, call'.value))
            /\ WriteValidator(props, call'.api, call'.name) = "none" =>
                  SameOutcome(SetOutcome(props, call'.api, call'.name, call'.value))]_vars

\* A setter installed through the guarded view has written a new value while
\* the view's write validator rejects every write.
C27_Witness ==
    /\ SetterDone
    /\ call.api = "guarded"
    /\ call.olds[1] # call.value
    /\ result = "ok"
    /\ emitted # <<>>
    /\ WriteValidator([props EXCEPT ![call.name].value = call.olds[1]],
                      "guarded", call.name) # "none"

----------------------------------------------------------------------------
(* C28 *)

\* A set of a defined property, a batch set of defined properties, is called.
SetOfDefined == Ready /\ call'.op = "set" /\ call'.name \in DOMAIN props
BatchOfDefined ==
    /\ Ready
    /\ call'.op = "setBatch"
    /\ \A i \in 1..Len(call'.batch) : call'.batch[i][1] \in DOMAIN props

\* The call ends with the validator's error, the store as it was and no event.
Rejected == result' = "ValidatorError" /\ props' = props /\ emitted' = <<>> /\ Idle'

\* C28 as stated: on every set, single or batch, the value validator decides on
\* (incomingValue, currentValue), the value stored at the time of the call.
C28_Original ==
    /\ [][SetOfDefined =>
            (Rejected <=> ValidatorThrows(props[call'.name].valueValidator,
                                          call'.value, props[call'.name].value))]_vars
    /\ [][BatchOfDefined =>
            (Rejected <=> \E i \in 1..Len(call'.batch) :
                             ValidatorThrows(props[call'.batch[i][1]].valueValidator,
                                             call'.batch[i][2],
                                             props[call'.batch[i][1]].value))]_vars

\* C28: on every set, single or batch, the value validator is invoked with the
\* incoming value alone: it decides as it does when its second parameter is
\* undefined, whatever the stored value is, and when it throws the store is as
\* it was and no event is fired.
C28_ValidatorSeesIncomingValueOnly ==
    /\ [][SetOfDefined =>
            (Rejected <=> ValidatorThrows(props[call'.name].valueValidator,
                                          call'.value, Undefined))]_vars
    /\ [][BatchOfDefined =>
            (Rejected <=> \E i \in 1..Len(call'.batch) :
                             ValidatorThrows(props[call'.batch[i][1]].valueValidator,
                                             call'.batch[i][2], Undefined))]_vars

\* A value greater than the stored one has been rejected by the validator that
\* wants a value greater than the current one.
C28_Witness ==
    /\ call.op = "set"
    /\ call.name \in DOMAIN props
    /\ props[call.name].valueValidator = "assertGreater"
    /\ Greater(call.value, call.olds[1])
    /\ result = "ValidatorError"

----------------------------------------------------------------------------
(* C29 *)

\* changeRule(new, old) is true: the default rule is new !== old.
RuleHolds(dc, new, old) == dc = "always" \/ (dc = "default" /\ new # old)

\* The step emits the event (n, new, old), and nothing else.
EmitsOnly(n, new, old) ==
    /\ Len(emitted') = Len(emitted) + 1
    /\ SubSeq(emitted', 1, Len(emitted)) = emitted
    /\ emitted'[Len(emitted')].name = n
    /\ emitted'[Len(emitted')].newValue = new
    /\ emitted'[Len(emitted')].oldValue = old

\* C29: the change rule gates the notification and never the write: every set
\* that passes validation stores the given value whether the rule holds of
\* (new, old) or not, in the single form and for every entry of a batch, and it
\* emits the notification (name, new, old) if and only if the rule holds, the
\* default rule being new # old.
C29_RuleGatesNotificationOnly ==
    [][/\ (Ready /\ call'.op = "set" /\ result' = "ok")
             => /\ PropValue(props', call'.name) = call'.value
                /\ IF RuleHolds(props[call'.name].didChange, call'.value,
                                props[call'.name].value)
                   THEN emitted = <<>> /\ EmitsOnly(call'.name, call'.value,
                                                    props[call'.name].value)
                   ELSE emitted' = <<>>
       /\ (Ready /\ call'.op = "setBatch" /\ result' = "ok")
             => \A i \in 1..Len(call'.batch) :
                    PropValue(props', call'.batch[i][1]) = call'.batch[i][2]
       /\ InBatchLoop
             => LET n == call.batch[Top.i][1]
                    v == call.batch[Top.i][2]
                    old == call.olds[Top.i]
                IN  IF RuleHolds(props[n].didChange, v, old)
                    THEN EmitsOnly(n, v, old)
                    ELSE emitted' = emitted
      ]_vars

\* A set has stored a value other than the one before under a rule that never
\* holds, and has emitted nothing.
C29_Witness ==
    /\ Idle
    /\ call.op = "set"
    /\ result = "ok"
    /\ call.name \in DOMAIN props
    /\ props[call.name].didChange = "never"
    /\ call.value # call.olds[1]
    /\ props[call.name].value = call.value
    /\ emitted = <<>>

----------------------------------------------------------------------------
(* C30 *)

DerivedNames == {n \in DOMAIN props : props[n].derived}

DefineDerivedSucceeds == Ready /\ call'.op = "defineDerivedProp" /\ result' = "ok"

\* The step is the listener of the derived property n, called for the change
\* notification of one of its dependencies.
RecalculatedOnNotification(n) ==
    /\ stack # <<>>
    /\ Top.kind = "emit"
    /\ Top.hs[Top.i].kind = "recalc"
    /\ Top.hs[Top.i].propName = n
    /\ \E i \in 1..Len(utilizers[n].dependsOn) : utilizers[n].dependsOn[i] = Top.name

\* The step is a call of set that names n.
SetDirectly(n) ==
    /\ Ready
    /\ \/ call'.op = "set" /\ call'.name = n
       \/ call'.op = "setBatch" /\ \E i \in 1..Len(call'.batch) : call'.batch[i][1] = n

\* What defineDerivedProp stores: initialValue without a calculation when it is
\* not undefined, and else the calculator's result for the values of dependsOn
\* at that time, in the declared order.
StoresInitialOrCalculated ==
    DefineDerivedSucceeds =>
        IF call'.value # Undefined
        THEN props'[call'.name].value = call'.value /\ calcLog' = <<>>
        ELSE /\ props'[call'.name].value = Calc(call'.calc, ValuesOf(props, call'.deps))
             /\ calcLog' = <<[name |-> call'.name,
                              args |-> [i \in 1..Len(call'.deps) |->
                                           props[call'.deps[i]].value],
                              value |-> props'[call'.name].value]>>

\* C30 as stated: defineDerivedProp stores initialValue, or the calculation when
\* initialValue is undefined, and the stored value of a derived property stays
\* as it is until a change notification of one of its dependencies.
C30_Original ==
    [][/\ StoresInitialOrCalculated
       /\ \A n \in DerivedNames :
              props'[n].value # props[n].value => RecalculatedOnNotification(n)]_vars

\* C30: defineDerivedProp stores initialValue in place of a calculation when it
\* is not undefined, and otherwise the calculator's result for the current
\* values of dependsOn in declared order; the stored value of a derived property
\* then stays as it is until its listener recalculates it on a change
\* notification of a dependency, or a call of set names the property itself.
C30_DerivedInitialValue ==
    [][/\ StoresInitialOrCalculated
       /\ \A n \in DerivedNames :
              props'[n].value # props[n].value =>
                  RecalculatedOnNotification(n) \/ SetDirectly(n)]_vars

\* A derived property of two dependencies was defined with an initial value that
\* differs from what its calculator gives, and holds the initial value.
C30_Witness ==
    /\ call.op = "defineDerivedProp"
    /\ result = "ok"
    /\ Len(call.deps) = 2
    /\ call.value # Undefined
    /\ props[call.name].value = call.value
    /\ call.value # Calc(call.calc, ValuesOf(props, call.deps))
    /\ calcLog = <<>>

----------------------------------------------------------------------------
(* C31 *)

\* The step gives the property n a stored value: it defines n, or it replaces
\* the value n held.
GivesValue(n) == n \in DOMAIN props' /\ (n \notin DOMAIN props \/ props'[n].value # props[n].value)

\* The step is a calculation of n's calculator, and n holds its result.
ProducedByCalculator(n) ==
    /\ Len(calcLog') = Len(calcLog) + 1
    /\ calcLog'[Len(calcLog')].name = n
    /\ calcLog'[Len(calcLog')].value = props'[n].value

\* The step is a definition of n, and n holds the initial value it was given.
HoldsInitialValue(n) ==
    /\ Ready
    /\ call'.op \in {"defineProp", "defineDerivedProp"}
    /\ call'.name = n
    /\ result' = "ok"
    /\ props'[n].value = call'.value

\* The step is a successful call of set that names n, and n holds the value the
\* call gave it.
HoldsWrittenValue(n) ==
    /\ Ready
    /\ result' = "ok"
    /\ \/ call'.op = "set" /\ call'.name = n /\ props'[n].value = call'.value
       \/ /\ call'.op = "setBatch"
          /\ \E i \in 1..Len(call'.batch) : call'.batch[i] = <<n, props'[n].value>>

\* C31 as stated: a primary property holds its initial value or the value of
\* its most recent successful write, and a derived property never holds a value
\* that its calculator did not produce.
C31_Original ==
    [][\A n \in DOMAIN props' :
          GivesValue(n) =>
              IF props'[n].derived
              THEN ProducedByCalculator(n)
              ELSE HoldsInitialValue(n) \/ HoldsWrittenValue(n)]_vars

\* C31: a primary property holds its initial value or the value of its most
\* recent successful write; a derived property holds the result of its most
\* recent recomputation, or the initial value it was defined with, or the value
\* of a successful set that named it, whichever came last.
C31_StoredValues ==
    [][\A n \in DOMAIN props' :
          GivesValue(n) =>
              IF props'[n].derived
              THEN ProducedByCalculator(n) \/ HoldsInitialValue(n) \/ HoldsWrittenValue(n)
              ELSE HoldsInitialValue(n) \/ HoldsWrittenValue(n)]_vars

\* A set through the store has returned and left a derived property with a value
\* other than the one its calculator gives for the current values of its
\* dependencies.
C31_Witness ==
    /\ Idle
    /\ call.op = "set"
    /\ result = "ok"
    /\ PropDerived(props, call.name)
    /\ props[call.name].value = call.value
    /\ call.value # Calc(utilizers[call.name].calc,
                         ValuesOf(props, utilizers[call.name].dependsOn))

----------------------------------------------------------------------------
(* C32 *)

\* C32: after definePropView(viewName, baseName, read, write) with a defined
\* base property and a new view name, the view is a property of the store that
\* get can read.
C32_PropertyView ==
    (Idle /\ call.op = "definePropView") =>
        /\ result = "ok"
        /\ call.name \in DOMAIN props
        /\ GetOutcome(props, "store", call.name).err = "none"

----------------------------------------------------------------------------
(* C33 *)

\* The place of a defined property in the order of definition.
Position(n) == CHOOSE i \in 1..Len(propKeys) : propKeys[i] = n

RecalcListeners ==
    UNION {{listeners[t][i] : i \in 1..Len(listeners[t])} : t \in DOMAIN listeners}

\* Each derived-property handler writes a property defined later than all of its
\* dependencies.
HandlersWriteLater ==
    \A h \in RecalcListeners :
        h.kind = "recalc" =>
            \A j \in 1..Len(h.dependsOn) :
                h.dependsOn[j] \in DOMAIN props =>
                    Position(h.dependsOn[j]) < Position(h.propName)

MaxOf(S) == CHOOSE x \in S : \A y \in S : y <= x

\* The number of properties on the longest dependency chain that ends in n.
RECURSIVE ChainLength(_)
ChainLength(n) ==
    IF n \notin DOMAIN utilizers THEN 1
    ELSE 1 + MaxOf({0} \cup {ChainLength(utilizers[n].dependsOn[j]) :
                                j \in {k \in 1..Len(utilizers[n].dependsOn) :
                                          utilizers[n].dependsOn[k] \in DOMAIN props}})

LongestChain == MaxOf({0} \cup {ChainLength(n) : n \in DOMAIN props})

\* The calls of set in progress: the caller's, and one for every emit that is
\* calling a listener.
SetDepth == 1 + Cardinality({i \in 1..Len(stack) : stack[i].kind = "emit"})

\* C33: with the store's own handlers as the only subscribers every call
\* terminates: each handler writes a property defined later than all of its
\* dependencies, the depth of the re-entrant set calls never exceeds the number
\* of properties on the longest dependency chain, and a call in progress
\* returns.
C33_CascadeTerminates ==
    /\ [](HandlersWriteLater)
    /\ [](stack # <<>> => SetDepth <= LongestChain)
    /\ (stack # <<>>) ~> Idle

\* A set of a is in progress at depth three: the handler of _b, called for a, has
\* set _b, and the emit for _b is about to call the handler of c.
C33_Witness ==
    /\ Len(stack) = 2
    /\ stack[1].kind = "emit" /\ stack[1].name = NameA
    /\ stack[2].kind = "emit" /\ stack[2].name = NameB
    /\ Top.hs[Top.i].propName = NameC
    /\ SetDepth = 3
    /\ LongestChain = 3

----------------------------------------------------------------------------
(* C34 *)

\* The notification e was emitted by the loop of the running batch set for a
\* derived key of the batch, and the store held a value that a handler had
\* recalculated since the batch wrote the key.
StaleBatchPayload(e) ==
    /\ call.op = "setBatch"
    /\ PropDerived(props, e.name)
    /\ \E i \in 1..Len(call.batch) : call.batch[i] = <<e.name, e.newValue>>
    /\ \E k \in 1..Len(calcLog) : calcLog[k].name = e.name /\ calcLog[k].value = e.stored

\* C34 as stated: at the moment a notification (name, newValue, oldValue) is
\* emitted, the stored value of name equals newValue.
C34_Original ==
    \A i \in 1..Len(emitted) : emitted[i].stored = emitted[i].newValue

\* C34: at the moment a notification (name, newValue, oldValue) is emitted the
\* stored value of name equals newValue, except in the loop of a batch set for a
\* derived key of the batch that a handler has recalculated since the batch
\* wrote it: that notification carries the batch's value while the store holds
\* the recalculated one.
C34_PayloadIsCurrent ==
    \A i \in 1..Len(emitted) :
        emitted[i].stored = emitted[i].newValue \/ StaleBatchPayload(emitted[i])

\* A batch set of a dependency and of a property derived from it has returned,
\* and its notification for the derived key carried a value the store did not
\* hold.
C34_Witness ==
    /\ Idle
    /\ call.op = "setBatch"
    /\ result = "ok"
    /\ \E i \in 1..Len(emitted) :
          /\ emitted[i].stored # emitted[i].newValue
          /\ PropDerived(props, emitted[i].name)

----------------------------------------------------------------------------
(* C35 *)

\* The derived property n, and every derived property it depends on, holds its
\* calculator's result for the values its dependencies hold.
RECURSIVE UpToDate(_)
UpToDate(n) ==
    n \in DOMAIN utilizers =>
        /\ props[n].value = Calc(utilizers[n].calc, ValuesOf(props, utilizers[n].dependsOn))
        /\ \A j \in 1..Len(utilizers[n].dependsOn) : UpToDate(utilizers[n].dependsOn[j])

\* C35 as stated: whenever a derived property is recalculated, the dependencies
\* its calculator reads are all up to date with the triggering write.
C35_Original ==
    [][\A n \in DerivedNames :
          RecalculatedOnNotification(n) =>
              \A j \in 1..Len(utilizers[n].dependsOn) :
                  UpToDate(utilizers[n].dependsOn[j])]_vars

\* C35: every value a recalculation stores is the calculator's result for the
\* values the dependencies hold at that moment, which may be a mix of values
\* from before and after the triggering write; when the call returns, every
\* derived property is up to date with the values of its dependencies.
C35_ConsistentOnReturn ==
    /\ [][\A n \in DerivedNames :
            RecalculatedOnNotification(n) =>
                props'[n].value = Calc(utilizers[n].calc,
                                       ValuesOf(props, utilizers[n].dependsOn))]_vars
    /\ [](Idle => \A n \in DerivedNames : UpToDate(n))

\* The diamond _b = f(a), c = g(a), d = h(_b, c): a set of a has returned, and d
\* was notified twice, first with a value it does not hold in the end.
C35_Witness ==
    /\ Idle
    /\ call.op = "set"
    /\ call.name = NameA
    /\ result = "ok"
    /\ NameD \in DOMAIN utilizers
    /\ utilizers[NameD].dependsOn = <<NameB, NameC>>
    /\ NameB \in DOMAIN utilizers /\ utilizers[NameB].dependsOn = <<NameA>>
    /\ NameC \in DOMAIN utilizers /\ utilizers[NameC].dependsOn = <<NameA>>
    /\ \E i, j \in 1..Len(emitted) :
          /\ i < j
          /\ emitted[i].name = NameD
          /\ emitted[j].name = NameD
          /\ emitted[i].newValue # props[NameD].value
          /\ emitted[j].newValue = props[NameD].value

----------------------------------------------------------------------------
(* C36 *)

\* The derived property m depends on n, directly or through other derived
\* properties.
RECURSIVE DependsOn(_, _)
DependsOn(m, n) ==
    /\ m \in DOMAIN utilizers
    /\ \E j \in 1..Len(utilizers[m].dependsOn) :
          utilizers[m].dependsOn[j] = n \/ DependsOn(utilizers[m].dependsOn[j], n)

\* What a property is, apart from its value.
Metadata(p) ==
    [m \in DOMAIN p |-> [derived |-> p[m].derived,
                         valueValidator |-> p[m].valueValidator,
                         didChange |-> p[m].didChange]]

\* C36: a step of a call of set(name, v) on a primary property changes the
\* stored value of no property other than name and the derived properties that
\* depend on name directly or transitively; no step of a call of set or get
\* changes the defined names, a property's kind, validator, change rule or
\* dependency list, or the subscriptions.
C36_FrameOfSet ==
    [][/\ (call'.op = "set" /\ ~PropDerived(props, call'.name))
             => \A m \in DOMAIN props :
                    props'[m].value # props[m].value =>
                        m = call'.name \/ DependsOn(m, call'.name)
       /\ call'.op \in {"set", "get"}
             => /\ propKeys' = propKeys
                /\ Metadata(props') = Metadata(props)
                /\ utilizers' = utilizers
                /\ listeners' = listeners]_vars

\* A set of a primary property has returned: it has changed a derived property
\* that depends on it only through another derived property.
C36_Witness ==
    /\ Idle
    /\ call.op = "set"
    /\ result = "ok"
    /\ ~PropDerived(props, call.name)
    /\ \E i \in 1..Len(emitted) :
          /\ DependsOn(emitted[i].name, call.name)
          /\ \A j \in 1..Len(utilizers[emitted[i].name].dependsOn) :
                 utilizers[emitted[i].name].dependsOn[j] # call.name


----------------------------------------------------------------------------
(* C37: the notifications of a property with the default change rule.        *)

\* The newValue of the last notification of n, undefined when there was none.
Announced(n) == IF n \in DOMAIN announced THEN announced[n] ELSE Undefined

DefaultRule(p, n) == n \in DOMAIN p /\ p[n].didChange = "default"

\* The step fires an event.
Fires == emitted' # emitted /\ emitted' # <<>>

Fired == emitted'[Len(emitted')]

\* The event the step fires continues the chain of its property.
ContinuesChain ==
    DefaultRule(props', Fired.name)
        => /\ Fired.oldValue = Announced(Fired.name)
           /\ Fired.newValue # Fired.oldValue

\* The entries of the running batch set that are still to be notified.
PendingEntries ==
    IF stack # <<>> /\ stack[1].kind = "batch"
    THEN stack[1].i..Len(stack[1].batch)
    ELSE {}

\* The last notification of every property with the default rule announced
\* the value the store holds for it, or held when the running batch set began
\* if the batch has written it and is still to notify it.
ChainIntact ==
    \A n \in DOMAIN props :
        DefaultRule(props, n) =>
            IF \E i \in PendingEntries : stack[1].batch[i][1] = n
            THEN \A i \in PendingEntries :
                     stack[1].batch[i][1] = n => Announced(n) = stack[1].olds[i]
            ELSE Announced(n) = props[n].value

\* The call is a batch set that lists a derived property together with a
\* property it depends on, directly or transitively.
MixedBatch ==
    /\ call.op = "setBatch"
    /\ \E i, j \in 1..Len(call.batch) : DependsOn(call.batch[i][1], call.batch[j][1])

\* C37 as stated: every event of a property with the default change rule has
\* for oldValue the newValue of the previous event of that property, undefined
\* if there was none, and a newValue that differs from its oldValue.
C37_Original == [][Fires => ContinuesChain]_vars

\* C37: as long as no batch set has listed a derived property together with a
\* property it depends on, every event of a property with the default change
\* rule has for oldValue the newValue of the previous event of that property,
\* undefined if there was none, and a newValue that differs from its oldValue,
\* and what was last announced is what the store holds.
C37_ChainUnlessMixedBatch ==
    [][(ChainIntact /\ ~MixedBatch')
          => /\ ChainIntact'
             /\ Fires => ContinuesChain]_vars

\* A set has returned whose event and whose recalculation's event each
\* continued a chain begun by an earlier event: the old values are not undefined.
C37_Witness ==
    /\ Idle
    /\ call.op \in {"set", "setBatch"}
    /\ ~MixedBatch
    /\ ChainIntact
    /\ \E i, j \in 1..Len(emitted) :
          /\ i < j
          /\ emitted[i].name # emitted[j].name
          /\ DefaultRule(props, emitted[i].name)
          /\ DefaultRule(props, emitted[j].name)
          /\ PropDerived(props, emitted[j].name)
          /\ emitted[i].oldValue # Undefined
          /\ emitted[j].oldValue # Undefined

====
